---- MODULE Spec2Model ----
(***************************************************************************)
(* QuickPatch (quick-diff-apply): applying the hunks of a unified diff to  *)
(* a text, in one batch (applyPatchToContent, applySelectedHunksToContent) *)
(* or hunk by hunk in an inline review session against a live editor       *)
(* document (applyHunkOnly, skipHunk, applyAllRemainingInFile,             *)
(* discardAllInFile).                                                      *)
(*                                                                         *)
(* A text is a sequence of characters, the newline character included; a   *)
(* line is a sequence of characters without a newline.  Hunk indices are   *)
(* 0-based as in the source; chunks is a TLA+ sequence, so hunk i is       *)
(* chunks[i + 1].                                                          *)
(***************************************************************************)
EXTENDS Integers, Sequences, FiniteSets, TLC

\* ------------------------------------------------------------------ bounds

\* The review document has between 1 and MaxLines lines of text.
MaxLines == 2

\* A diff under review has at most MaxHunks hunks.
MaxHunks == 2

\* ------------------------------------------------------------- characters

NL == "\n"

\* Contents of the lines of the document under review, one letter per line.
OrigChr == <<"a", "b", "c", "d", "e", "f", "g", "h">>

\* Contents of the lines a hunk inserts, by the hunk's oldStart.
AddChr == <<"P", "Q", "R", "S", "T", "U", "V", "W", "X", "Y">>

Min(a, b) == IF a < b THEN a ELSE b

Max(a, b) == IF a > b THEN a ELSE b

\* ------------------------------------------------------ strings and arrays

\* String.prototype.split('\n'): the lines of a text; never empty.
RECURSIVE SplitAcc(_, _, _)
SplitAcc(t, cur, acc) ==
  IF t = <<>> THEN Append(acc, cur)
  ELSE IF Head(t) = NL THEN SplitAcc(Tail(t), <<>>, Append(acc, cur))
  ELSE SplitAcc(Tail(t), Append(cur, Head(t)), acc)

split(t) == SplitAcc(t, <<>>, <<>>)

\* Array.prototype.join('\n').
RECURSIVE join(_)
join(arr) ==
  IF Len(arr) = 0 THEN <<>>
  ELSE IF Len(arr) = 1 THEN arr[1]
  ELSE arr[1] \o <<NL>> \o join(Tail(arr))

\* String.prototype.substring(1): the content of a change without its marker.
substring1(s) == IF Len(s) = 0 THEN <<>> ELSE Tail(s)

\* String.prototype.endsWith('\n').
endsWithNL(t) == Len(t) > 0 /\ t[Len(t)] = NL

\* Array.prototype.splice(start, deleteCount, ...items), as a new array.
splice(arr, start, deleteCount, items) ==
  LET len == Len(arr)
      s   == IF start < 0 THEN Max(len + start, 0) ELSE Min(start, len)
      d   == Min(Max(deleteCount, 0), len - s)
  IN  SubSeq(arr, 1, s) \o items \o SubSeq(arr, s + d + 1, len)

\* Array.prototype.filter over the changes of a chunk, by change type.
RECURSIVE filterTypes(_, _)
filterTypes(changes, types) ==
  IF changes = <<>> THEN <<>>
  ELSE IF Head(changes).type \in types
       THEN <<Head(changes)>> \o filterTypes(Tail(changes), types)
       ELSE filterTypes(Tail(changes), types)

\* .map(c => c.content.substring(1)).
contents(changes) == [k \in 1..Len(changes) |-> substring1(changes[k].content)]

\* ------------------------------------------------------- parse-diff chunks

Marker(type) == IF type = "add" THEN "+" ELSE IF type = "del" THEN "-" ELSE " "

\* Line k (1-based) of the reviewed text, or a line that is not in it.
OldLine(lines, k) ==
  IF k >= 1 /\ k <= Len(lines) THEN lines[k] ELSE <<"z">>

\* The j-th line a hunk at oldStart inserts.
AddLine(oldStart, j) == [k \in 1..j |-> AddChr[oldStart + 1]]

\* The changes of a chunk as parse-diff numbers them: a normal change carries
\* ln1 (old line) and ln2 (new line), a del or an add change carries ln.  The
\* kind "blank" is an add change whose line is empty.
RECURSIVE MkChanges(_, _, _, _, _, _)
MkChanges(lines, oldStart, kinds, oldLn, newLn, addNo) ==
  IF kinds = <<>> THEN <<>>
  ELSE LET k == Head(kinds) IN
    IF k = "normal" THEN
      <<[type |-> "normal", content |-> <<Marker(k)>> \o OldLine(lines, oldLn),
         ln |-> 0, ln1 |-> oldLn, ln2 |-> newLn]>>
      \o MkChanges(lines, oldStart, Tail(kinds), oldLn + 1, newLn + 1, addNo)
    ELSE IF k = "del" THEN
      <<[type |-> "del", content |-> <<Marker(k)>> \o OldLine(lines, oldLn),
         ln |-> oldLn, ln1 |-> 0, ln2 |-> 0]>>
      \o MkChanges(lines, oldStart, Tail(kinds), oldLn + 1, newLn, addNo)
    ELSE
      <<[type |-> "add",
         content |-> <<Marker("add")>>
                       \o (IF k = "blank" THEN <<>> ELSE AddLine(oldStart, addNo)),
         ln |-> newLn, ln1 |-> 0, ln2 |-> 0]>>
      \o MkChanges(lines, oldStart, Tail(kinds), oldLn, newLn + 1, addNo + 1)

CountKinds(kinds, types) == Cardinality({k \in 1..Len(kinds) : kinds[k] \in types})

\* A chunk of parse-diff: the header's four numbers and the changes.
MkChunk(lines, oldStart, newStart, kinds) ==
  [oldStart |-> oldStart,
   oldLines |-> CountKinds(kinds, {"normal", "del"}),
   newStart |-> newStart,
   newLines |-> CountKinds(kinds, {"normal", "add", "blank"}),
   changes  |-> MkChanges(lines, oldStart, kinds, oldStart, newStart, 1)]

\* ------------------------------------------------------- batch application

\* The lines a chunk puts in place of its old lines.
insertLines(chunk) == contents(filterTypes(chunk.changes, {"add", "normal"}))

\* The loop splicing at oldStart, taken as an index.
RECURSIVE applyPatchLoopAtOldStart(_, _, _)
applyPatchLoopAtOldStart(out, chunks, i) ==
  IF i < 0 THEN out
  ELSE LET chunk == chunks[i + 1]
           pos   == Max(chunk.oldStart, 0)
       IN  applyPatchLoopAtOldStart(
             splice(out, pos, chunk.oldLines, insertLines(chunk)), chunks, i - 1)

\* applyPatchToContent, bottom to top at oldStart - 1 (the inline-diff module).
RECURSIVE applyPatchLoop(_, _, _)
applyPatchLoop(out, chunks, i) ==
  IF i < 0 THEN out
  ELSE LET chunk == chunks[i + 1]
           pos   == Max(chunk.oldStart - 1, 0)
       IN  applyPatchLoop(splice(out, pos, chunk.oldLines, insertLines(chunk)),
                          chunks, i - 1)

applyPatchToContent(originalContent, chunks) ==
  join(applyPatchLoop(split(originalContent), chunks, Len(chunks) - 1))

\* applyPatchToContent of extension.ts, bottom to top at newStart - 1, removing
\* as many lines as the chunk has del and normal changes.
RECURSIVE applyPatchNewStartLoop(_, _, _)
applyPatchNewStartLoop(newLines, chunks, i) ==
  IF i < 0 THEN newLines
  ELSE LET chunk == chunks[i + 1]
           currentPositionInNewLines ==
             IF chunk.newStart - 1 < 0 THEN 0 ELSE chunk.newStart - 1
           linesToRemove == Len(filterTypes(chunk.changes, {"del", "normal"}))
           linesToAdd    == insertLines(chunk)
       IN  applyPatchNewStartLoop(
             splice(newLines, currentPositionInNewLines, linesToRemove, linesToAdd),
             chunks, i - 1)

applyPatchToContentNewStart(originalContent, chunks) ==
  join(applyPatchNewStartLoop(split(originalContent), chunks, Len(chunks) - 1))

\* Array.prototype.sort((a, b) => b - a): descending, by insertion.
RECURSIVE insertDesc(_, _)
insertDesc(x, sorted) ==
  IF sorted = <<>> THEN <<x>>
  ELSE IF x >= Head(sorted) THEN <<x>> \o sorted
  ELSE <<Head(sorted)>> \o insertDesc(x, Tail(sorted))

RECURSIVE sortDesc(_)
sortDesc(arr) == IF arr = <<>> THEN <<>> ELSE insertDesc(Head(arr), sortDesc(Tail(arr)))

\* applySelectedHunksToContent: the chunks indices names, bottom to top, each at
\* oldStart - 1; an index that names no chunk is passed over.
RECURSIVE applySelectedLoop(_, _, _)
applySelectedLoop(out, allHunks, sorted) ==
  IF sorted = <<>> THEN out
  ELSE LET idx == Head(sorted) IN
    IF idx < 0 \/ idx >= Len(allHunks)
    THEN applySelectedLoop(out, allHunks, Tail(sorted))
    ELSE LET hunk == allHunks[idx + 1]
             pos  == Max(hunk.oldStart - 1, 0)
         IN  applySelectedLoop(splice(out, pos, hunk.oldLines, insertLines(hunk)),
                               allHunks, Tail(sorted))

\* The selected hunks spliced in the order given, not sorted.
applySelectedHunksToContentUnsorted(originalContent, allHunks, indices) ==
  join(applySelectedLoop(split(originalContent), allHunks, indices))

applySelectedHunksToContent(originalContent, allHunks, indices) ==
  join(applySelectedLoop(split(originalContent), allHunks, sortDesc(indices)))

\* lines[i] of a JavaScript array in a string concatenation.
Undefined == <<"u", "n", "d", "e", "f", "i", "n", "e", "d">>

lineAtJS(lines, i) == IF i >= 0 /\ i < Len(lines) THEN lines[i + 1] ELSE Undefined

\* for (i = from; i < to; i++) newContent += lines[i] + '\n'
RECURSIVE copyLines(_, _, _)
copyLines(lines, from, to) ==
  IF from >= to THEN <<>>
  ELSE lineAtJS(lines, from) \o <<NL>> \o copyLines(lines, from + 1, to)

\* for (i = from; i < lines.length; i++)
\*   newContent += lines[i] + (i < lines.length - 1 ? '\n' : '')
RECURSIVE copyRest(_, _)
copyRest(lines, from) ==
  IF from >= Len(lines) THEN <<>>
  ELSE lineAtJS(lines, from)
       \o (IF from < Len(lines) - 1 THEN <<NL>> ELSE <<>>)
       \o copyRest(lines, from + 1)

\* The add and normal lines of a chunk, each followed by a newline.
RECURSIVE chunkText(_)
chunkText(changes) ==
  IF changes = <<>> THEN <<>>
  ELSE IF Head(changes).type \in {"add", "normal"}
       THEN substring1(Head(changes).content) \o <<NL>> \o chunkText(Tail(changes))
       ELSE chunkText(Tail(changes))

\* lastLineProcessed after a chunk: ln1 or ln of its last change, kept when that
\* number is 0 (falsy) or the last change is an add.
lastLineAfter(chunk, lastLineProcessed) ==
  IF Len(chunk.changes) = 0 THEN lastLineProcessed
  ELSE LET lastChange == chunk.changes[Len(chunk.changes)] IN
    IF lastChange.type = "normal"
    THEN (IF lastChange.ln1 # 0 THEN lastChange.ln1 ELSE lastLineProcessed)
    ELSE IF lastChange.type = "del"
    THEN (IF lastChange.ln # 0 THEN lastChange.ln ELSE lastLineProcessed)
    ELSE lastLineProcessed

\* applyPatchToContent of commands.ts: one walk from the top of the text.
RECURSIVE forwardLoop(_, _, _, _, _)
forwardLoop(lines, chunks, k, newContent, lastLineProcessed) ==
  IF k > Len(chunks) THEN [newContent |-> newContent, last |-> lastLineProcessed]
  ELSE LET chunk  == chunks[k]
           before == IF chunk.oldStart > 0
                     THEN copyLines(lines, lastLineProcessed + 1, chunk.oldStart - 1)
                     ELSE <<>>
       IN  forwardLoop(lines, chunks, k + 1,
                       newContent \o before \o chunkText(chunk.changes),
                       lastLineAfter(chunk, lastLineProcessed))

applyPatchToContentForward(originalContent, chunks) ==
  LET lines == split(originalContent)
      w     == forwardLoop(lines, chunks, 1, <<>>, 0 - 1)
      body  == w.newContent \o copyRest(lines, w.last + 1)
  IN  IF endsWithNL(originalContent) /\ ~endsWithNL(body) /\ body # <<>>
      THEN body \o <<NL>>
      ELSE body

\* ------------------------------------------------------ the editor document

\* TextDocument.lineCount.
lineCount(text) == Len(split(text))

\* The offset of Position(line, 0) once the editor has validated it: a line
\* past the last line is the end of the document.
RECURSIVE lineStart(_, _)
lineStart(lines, line) ==
  IF line = 0 THEN 0 ELSE Len(lines[1]) + 1 + lineStart(Tail(lines), line - 1)

offsetAt(text, line) ==
  IF line >= lineCount(text) THEN Len(text) ELSE lineStart(split(text), line)

\* The document after an accepted WorkspaceEdit.replace of
\* Range(Position(startLine, 0), Position(endLine, 0)) by newText.
replaceRange(text, startLine, endLine, newText) ==
  SubSeq(text, 1, offsetAt(text, startLine)) \o newText
    \o SubSeq(text, offsetAt(text, endLine) + 1, Len(text))

\* ---------------------------------------------------------------- the state

VARIABLES
  doc,                        \* editor.document: the text of the live document
  originalText,               \* the text of the document when the review started
  chunks,                     \* originalFileDiff.chunks
  sessionOpen,                \* activeInlineDiffSession is defined
  appliedHunkIndices,         \* of the session object created last
  skippedHunkIndices,
  netLineChangesByHunkIndex,  \* a Map: a function on the indices that have an entry
  activeHunkIndex,            \* {} for null, {i} for hunk i
  shown,                      \* the messages the last command has shown
  edits,                      \* the edits the last command has submitted
  reviews,                    \* how many reviews were started
  result,                     \* the last call of a batch function
  inFlight,                   \* the edits submitted to the editor and not completed
  detached                    \* the sets of the session object before the last one

vars == <<doc, originalText, chunks, sessionOpen, appliedHunkIndices,
          skippedHunkIndices, netLineChangesByHunkIndex, activeHunkIndex,
          shown, edits, reviews, result, inFlight, detached>>

\* The uri of the reviewed document and the uri of another file.
SessionUri == "file:original.txt"

OtherUri == "file:other.txt"

Uris == {SessionUri, OtherUri}

NumHunks == Len(chunks)

\* Map.get(i) || 0
netGet(net, i) == IF i \in DOMAIN net THEN net[i] ELSE 0

\* Map.set(i, v) that stores nothing for a value of 0.
netSetUnlessZero(net, i, v) ==
  IF v = 0 THEN net ELSE [k \in (DOMAIN net) \cup {i} |-> IF k = i THEN v ELSE net[k]]

\* Map.set(i, v)
netSet(net, i, v) == [k \in (DOMAIN net) \cup {i} |-> IF k = i THEN v ELSE net[k]]

EmptyMap == [k \in {} |-> 0]

\* The loop run up to and including hunkIndex.
RECURSIVE offsetLoopInclusive(_, _, _, _, _)
offsetLoopInclusive(applied, net, i, hunkIndex, offset) ==
  IF i > hunkIndex THEN offset
  ELSE offsetLoopInclusive(applied, net, i + 1, hunkIndex,
                           IF i \in applied THEN offset + netGet(net, i) ELSE offset)

\* The loop of getAdjustedStartLineForHunk.
RECURSIVE offsetLoop(_, _, _, _, _)
offsetLoop(applied, net, i, hunkIndex, offset) ==
  IF i >= hunkIndex THEN offset
  ELSE offsetLoop(applied, net, i + 1, hunkIndex,
                  IF i \in applied THEN offset + netGet(net, i) ELSE offset)

\* The start line without the shifts of the hunks applied before.
adjustedStartLineNoOffset(cs, applied, net, hunkIndex) ==
  cs[hunkIndex + 1].oldStart - 1

\* The start line counted from 1 as the header of the hunk counts it.
adjustedStartLineOneBased(cs, applied, net, hunkIndex) ==
  cs[hunkIndex + 1].oldStart + offsetLoop(applied, net, 0, hunkIndex, 0)

adjustedStartLine(cs, applied, net, hunkIndex) ==
  cs[hunkIndex + 1].oldStart - 1 + offsetLoop(applied, net, 0, hunkIndex, 0)

\* getAdjustedStartLineForHunk, for an index that names a chunk.
getAdjustedStartLineForHunk(hunkIndex) ==
  IF ~sessionOpen THEN 0 - 1
  ELSE adjustedStartLine(chunks, appliedHunkIndices, netLineChangesByHunkIndex,
                         hunkIndex)

\* The text of all changes of a hunk, deleted lines too.
RECURSIVE newTextForHunkWithDeleted(_)
newTextForHunkWithDeleted(hunk) ==
  IF hunk.changes = <<>> THEN <<>>
  ELSE substring1(Head(hunk.changes).content) \o <<NL>>
       \o newTextForHunkWithDeleted([hunk EXCEPT !.changes = Tail(@)])

\* The call looking the chunk up before it looks for the session.
getAdjustedStartLineForHunkCallIndexFirst(hunkIndex) ==
  IF hunkIndex < 0 \/ hunkIndex >= Len(chunks)
  THEN [kind |-> "throws", value |-> 0]
  ELSE [kind |-> "returns", value |-> getAdjustedStartLineForHunk(hunkIndex)]

\* A call of getAdjustedStartLineForHunk with any index: without a session it
\* returns -1; with one, chunks[hunkIndex] of an index that names no chunk is
\* undefined and reading its oldStart throws a TypeError.
getAdjustedStartLineForHunkCall(hunkIndex) ==
  IF ~sessionOpen THEN [kind |-> "returns", value |-> 0 - 1]
  ELSE IF hunkIndex < 0 \/ hunkIndex >= Len(chunks)
  THEN [kind |-> "throws", value |-> 0]
  ELSE [kind |-> "returns", value |-> getAdjustedStartLineForHunk(hunkIndex)]

\* newTextForHunk: the add and normal lines, each with its newline; empty for
\* a chunk that declares no new line and holds one blank line.
newTextForHunk(hunk) ==
  LET t == chunkText(hunk.changes)
  IN  IF hunk.newLines = 0 /\ t = <<NL>> THEN <<>> ELSE t

\* chunks.findIndex(not applied and not skipped), as {} or {index}.
nextHunkIndex(cs, applied, skipped) ==
  LET open == {i \in 0..(Len(cs) - 1) : i \notin applied /\ i \notin skipped}
  IN  IF open = {} THEN {} ELSE {CHOOSE i \in open : \A j \in open : i <= j}

\* The test asking for every chunk to be applied.
allHunksProcessedAppliedOnly(cs, applied, skipped) ==
  \A i \in 0..(Len(cs) - 1) : i \in applied

\* chunks.every(applied or skipped)
allHunksProcessed(cs, applied, skipped) ==
  \A i \in 0..(Len(cs) - 1) : i \in applied \/ i \in skipped

Msg(kind, text, n) == [kind |-> kind, text |-> text, n |-> n]

Edit(startLine, endLine, text, success) ==
  [startLine |-> startLine, endLine |-> endLine, text |-> text, success |-> success]

\* The "Ensure valid range" test of applyHunkOnly: TRUE when it refuses.
invalidRange(adjusted, oldLines, docLines) ==
  /\ (adjusted < 0 \/ (oldLines > 0 /\ adjusted + oldLines > docLines))
  /\ ~(oldLines = 0 /\ adjusted <= docLines)

\* ------------------------------------------------------ the diffs reviewed

\* A text of n lines, with or without a final newline.
Text(n, finalNewline) ==
  join([k \in 1..n |-> <<OrigChr[k]>>] \o (IF finalNewline THEN << <<>> >> ELSE <<>>))

\* The shapes of a hunk: the types of its changes, in order.
Shapes ==
  { <<"add">>, <<"del">>, <<"del", "add">>, <<"del", "add", "add">>,
    <<"normal", "del">> }

OldCount(kinds) == CountKinds(kinds, {"normal", "del"})

NewCount(kinds) == CountKinds(kinds, {"normal", "add", "blank"})

\* Hunk specifications <<oldStart, kinds>> in ascending order of oldStart, no
\* hunk reaching into the next one.
Ascending(hs) ==
  \A k \in 1..(Len(hs) - 1) : hs[k][1] + OldCount(hs[k][2]) <= hs[k + 1][1]

HunkSpecs(n) ==
  {hs \in UNION {[1..m -> (0..(n + 2)) \X Shapes] : m \in 0..MaxHunks} : Ascending(hs)}

\* The chunks parse-diff yields for the hunk specifications: newStart follows
\* from oldStart and the line counts of the earlier hunks.
RECURSIVE MkChunks(_, _, _)
MkChunks(lines, hs, shift) ==
  IF hs = <<>> THEN <<>>
  ELSE LET h == Head(hs) IN
    <<MkChunk(lines, h[1], h[1] + shift, h[2])>>
    \o MkChunks(lines, Tail(hs), shift + NewCount(h[2]) - OldCount(h[2]))

\* --------------------------------------------------------------- the review

\* At most MaxReviews reviews are started in a run.
MaxReviews == 1

\* A session object with nothing in its sets.
NoSession == [applied |-> {}, skipped |-> {}, net |-> EmptyMap]

\* No batch function was called.
NoCall == [fn |-> "none", indices |-> <<>>, out |-> <<>>]

Init ==
  \E n \in 1..MaxLines, finalNewline \in BOOLEAN :
    \E hs \in HunkSpecs(n) :
      /\ doc = Text(n, finalNewline)
      /\ originalText = doc
      /\ chunks = MkChunks([k \in 1..n |-> <<OrigChr[k]>>], hs, 0)
      /\ sessionOpen = FALSE
      /\ appliedHunkIndices = {}
      /\ skippedHunkIndices = {}
      /\ netLineChangesByHunkIndex = EmptyMap
      /\ activeHunkIndex = {}
      /\ shown = <<>>
      /\ edits = <<>>
      /\ reviews = 0
      /\ result = NoCall
      /\ inFlight = <<>>
      /\ detached = NoSession

\* startInlineDiffReview leaving the new session without an active hunk.
StartInlineDiffReviewNoPreview ==
  /\ reviews < MaxReviews
  /\ reviews' = reviews + 1
  /\ sessionOpen' = TRUE
  /\ originalText' = doc
  /\ appliedHunkIndices' = {}
  /\ skippedHunkIndices' = {}
  /\ netLineChangesByHunkIndex' = EmptyMap
  /\ activeHunkIndex' = {}
  /\ shown' = <<>>
  /\ edits' = <<>>
  /\ UNCHANGED <<doc, chunks, result, inFlight, detached>>

\* startInlineDiffReview: the session before is cleared, the new one previews
\* its first hunk.
StartInlineDiffReview ==
  /\ reviews < MaxReviews
  /\ reviews' = reviews + 1
  /\ sessionOpen' = TRUE
  /\ originalText' = doc
  /\ appliedHunkIndices' = {}
  /\ skippedHunkIndices' = {}
  /\ netLineChangesByHunkIndex' = EmptyMap
  /\ activeHunkIndex' = nextHunkIndex(chunks, {}, {})
  /\ shown' = <<>>
  /\ edits' = <<>>
  /\ UNCHANGED <<doc, chunks, result, inFlight, detached>>

\* A command that returns at once: nothing is shown, nothing is submitted.
Quiet ==
  /\ shown' = <<>>
  /\ edits' = <<>>
  /\ UNCHANGED <<doc, sessionOpen, appliedHunkIndices, skippedHunkIndices,
                 netLineChangesByHunkIndex, activeHunkIndex>>

\* A command that ends by showing messages, the session as it was.
Report(messages) ==
  /\ shown' = messages
  /\ edits' = <<>>
  /\ UNCHANGED <<doc, sessionOpen, appliedHunkIndices, skippedHunkIndices,
                 netLineChangesByHunkIndex, activeHunkIndex>>

\* The handlers without their preview of the next unprocessed hunk.
PreviewNextForgotten(applied, skipped) == activeHunkIndex' = activeHunkIndex

\* previewHunk(next) when a hunk is left; the session is open then.
PreviewNext(applied, skipped) ==
  LET next == nextHunkIndex(chunks, applied, skipped)
  IN  activeHunkIndex' = IF next # {} THEN next ELSE activeHunkIndex

\* A refused edit that leaves the hunk marked applied.
EditRefusedMarkedApplied(hunkIndex, outcome, edit) ==
  /\ shown' = <<Msg("error",
                    IF outcome = "fail" THEN "Failed to apply hunk"
                    ELSE "Error applying hunk", hunkIndex + 1)>>
  /\ edits' = <<edit>>
  /\ appliedHunkIndices' = appliedHunkIndices \cup {hunkIndex}
  /\ PreviewNext(appliedHunkIndices', skippedHunkIndices)
  /\ UNCHANGED <<doc, sessionOpen, skippedHunkIndices, netLineChangesByHunkIndex>>

\* applyHunkOnly when applyEdit resolves to false or throws: the message, then
\* the preview of the next pending hunk.
EditRefused(hunkIndex, outcome, edit) ==
  /\ shown' = <<Msg("error",
                    IF outcome = "fail" THEN "Failed to apply hunk"
                    ELSE "Error applying hunk", hunkIndex + 1)>>
  /\ edits' = <<edit>>
  /\ PreviewNext(appliedHunkIndices, skippedHunkIndices)
  /\ UNCHANGED <<doc, sessionOpen, appliedHunkIndices, skippedHunkIndices,
                 netLineChangesByHunkIndex>>

\* quick-diff-apply.applyHunkOnly; outcome is the editor's answer to the edit.
ApplyHunkOnly(fileUri, hunkIndex, outcome) ==
  /\ UNCHANGED <<originalText, chunks, reviews, result, inFlight, detached>>
  /\ IF ~sessionOpen \/ fileUri # SessionUri THEN Quiet
     ELSE IF hunkIndex \in appliedHunkIndices \/ hunkIndex \in skippedHunkIndices
     THEN Quiet
     ELSE IF hunkIndex < 0 \/ hunkIndex >= NumHunks
     THEN Report(<<Msg("error", "Invalid hunk index.", 0)>>)
     ELSE
       LET hunk     == chunks[hunkIndex + 1]
           adjusted == getAdjustedStartLineForHunk(hunkIndex)
           endLine  == adjusted + hunk.oldLines
           text     == newTextForHunk(hunk)
       IN
       IF invalidRange(adjusted, hunk.oldLines, lineCount(doc))
       THEN Report(<<Msg("error", "Cannot apply hunk: Invalid line numbers", 0)>>)
       ELSE IF adjusted < 0
       THEN Report(<<Msg("uncaught", "Position: line must be non-negative", 0)>>)
       ELSE IF outcome = "ok" THEN
         LET newDoc  == replaceRange(doc, adjusted, endLine, text)
             delta   == lineCount(newDoc) - lineCount(doc)
             applied == appliedHunkIndices \cup {hunkIndex}
             all     == allHunksProcessed(chunks, applied, skippedHunkIndices)
         IN
         /\ doc' = newDoc
         /\ appliedHunkIndices' = applied
         /\ netLineChangesByHunkIndex' =
              netSet(netLineChangesByHunkIndex, hunkIndex, delta)
         /\ shown' = <<Msg("info", "Hunk applied.", hunkIndex + 1)>>
              \o (IF all THEN <<Msg("info", "All hunks processed.", 0)>> ELSE <<>>)
         /\ sessionOpen' = ~all
         /\ edits' = <<Edit(adjusted, endLine, text, TRUE)>>
         /\ PreviewNext(applied, skippedHunkIndices)
         /\ UNCHANGED skippedHunkIndices
       ELSE EditRefused(hunkIndex, outcome, Edit(adjusted, endLine, text, FALSE))

\* skipHunk without its test for an applied hunk.
SkipHunkAlsoApplied(fileUri, hunkIndex) ==
  /\ UNCHANGED <<originalText, chunks, reviews, result, inFlight, detached>>
  /\ IF ~sessionOpen \/ fileUri # SessionUri THEN Quiet
     ELSE
       LET skipped == skippedHunkIndices \cup {hunkIndex}
           all     == allHunksProcessed(chunks, appliedHunkIndices, skipped)
       IN
       /\ skippedHunkIndices' = skipped
       /\ shown' = IF all THEN <<Msg("info", "All hunks processed.", 0)>> ELSE <<>>
       /\ sessionOpen' = ~all
       /\ edits' = <<>>
       /\ PreviewNext(appliedHunkIndices, skipped)
       /\ UNCHANGED <<doc, appliedHunkIndices, netLineChangesByHunkIndex>>

\* skipHunk that counts the skipped hunk as a shift of the hunks after it.
SkipHunkWithEntry(fileUri, hunkIndex) ==
  /\ UNCHANGED <<originalText, chunks, reviews, result, inFlight, detached>>
  /\ IF ~sessionOpen \/ fileUri # SessionUri THEN Quiet
     ELSE IF hunkIndex \in appliedHunkIndices THEN Quiet
     ELSE
       LET skipped == skippedHunkIndices \cup {hunkIndex}
           all     == allHunksProcessed(chunks, appliedHunkIndices, skipped)
       IN
       /\ skippedHunkIndices' = skipped
       /\ appliedHunkIndices' = appliedHunkIndices \cup {hunkIndex}
       /\ netLineChangesByHunkIndex' = netSet(netLineChangesByHunkIndex, hunkIndex, 1)
       /\ shown' = IF all THEN <<Msg("info", "All hunks processed.", 0)>> ELSE <<>>
       /\ sessionOpen' = ~all
       /\ edits' = <<>>
       /\ PreviewNext(appliedHunkIndices, skipped)
       /\ UNCHANGED doc

\* quick-diff-apply.skipHunk
SkipHunk(fileUri, hunkIndex) ==
  /\ UNCHANGED <<originalText, chunks, reviews, result, inFlight, detached>>
  /\ IF ~sessionOpen \/ fileUri # SessionUri THEN Quiet
     ELSE IF hunkIndex \in appliedHunkIndices THEN Quiet
     ELSE
       LET skipped == skippedHunkIndices \cup {hunkIndex}
           all     == allHunksProcessed(chunks, appliedHunkIndices, skipped)
       IN
       /\ skippedHunkIndices' = skipped
       /\ shown' = IF all THEN <<Msg("info", "All hunks processed.", 0)>> ELSE <<>>
       /\ sessionOpen' = ~all
       /\ edits' = <<>>
       /\ PreviewNext(appliedHunkIndices, skipped)
       /\ UNCHANGED <<doc, appliedHunkIndices, netLineChangesByHunkIndex>>

\* The loop of applyAllRemainingInFile from hunk i on; the editor refuses the
\* edit of hunk failAt.  st is the document, the applied set, the map and the
\* edits so far; end tells how the loop was left.
\* The loop recording the delta the hunk declares, not the measured one.
RECURSIVE applyAllLoopDeclared(_, _, _, _)
applyAllLoopDeclared(st, i, failAt, failKind) ==
  IF i >= NumHunks THEN [st EXCEPT !.end = "done"]
  ELSE IF i \in st.applied \/ i \in skippedHunkIndices
  THEN applyAllLoopDeclared(st, i + 1, failAt, failKind)
  ELSE
    LET hunk     == chunks[i + 1]
        adjusted == adjustedStartLine(chunks, st.applied, st.net, i)
        endLine  == adjusted + hunk.oldLines
        text     == newTextForHunk(hunk)
    IN
    IF adjusted < 0 THEN [st EXCEPT !.end = "uncaught", !.at = i]
    ELSE IF i = failAt
    THEN [st EXCEPT !.end = failKind, !.at = i,
                    !.edits = Append(@, Edit(adjusted, endLine, text, FALSE))]
    ELSE
      applyAllLoopDeclared(
        [st EXCEPT !.doc = replaceRange(st.doc, adjusted, endLine, text),
                   !.applied = @ \cup {i},
                   !.net = netSet(@, i, hunk.newLines - hunk.oldLines),
                   !.edits = Append(@, Edit(adjusted, endLine, text, TRUE))],
        i + 1, failAt, failKind)

\* The loop taking every start line from the session as the run found it, the
\* edits of the run not counted.
RECURSIVE applyAllLoopPrecomputed(_, _, _, _)
applyAllLoopPrecomputed(st, i, failAt, failKind) ==
  IF i >= NumHunks THEN [st EXCEPT !.end = "done"]
  ELSE IF i \in st.applied \/ i \in skippedHunkIndices
  THEN applyAllLoopPrecomputed(st, i + 1, failAt, failKind)
  ELSE
    LET hunk     == chunks[i + 1]
        adjusted == adjustedStartLine(chunks, appliedHunkIndices,
                                      netLineChangesByHunkIndex, i)
        endLine  == adjusted + hunk.oldLines
        text     == newTextForHunk(hunk)
    IN
    IF adjusted < 0 THEN [st EXCEPT !.end = "uncaught", !.at = i]
    ELSE IF i = failAt
    THEN [st EXCEPT !.end = failKind, !.at = i,
                    !.edits = Append(@, Edit(adjusted, endLine, text, FALSE))]
    ELSE
      LET newDoc == replaceRange(st.doc, adjusted, endLine, text)
      IN  applyAllLoopPrecomputed(
            [st EXCEPT !.doc = newDoc,
                       !.applied = @ \cup {i},
                       !.net = netSet(@, i, lineCount(newDoc) - lineCount(st.doc)),
                       !.edits = Append(@, Edit(adjusted, endLine, text, TRUE))],
            i + 1, failAt, failKind)

RECURSIVE applyAllLoop(_, _, _, _)
applyAllLoop(st, i, failAt, failKind) ==
  IF i >= NumHunks THEN [st EXCEPT !.end = "done"]
  ELSE IF i \in st.applied \/ i \in skippedHunkIndices
  THEN applyAllLoop(st, i + 1, failAt, failKind)
  ELSE
    LET hunk     == chunks[i + 1]
        adjusted == adjustedStartLine(chunks, st.applied, st.net, i)
        endLine  == adjusted + hunk.oldLines
        text     == newTextForHunk(hunk)
    IN
    IF adjusted < 0 THEN [st EXCEPT !.end = "uncaught", !.at = i]
    ELSE IF i = failAt
    THEN [st EXCEPT !.end = failKind, !.at = i,
                    !.edits = Append(@, Edit(adjusted, endLine, text, FALSE))]
    ELSE
      LET newDoc == replaceRange(st.doc, adjusted, endLine, text)
      IN  applyAllLoop(
            [st EXCEPT !.doc = newDoc,
                       !.applied = @ \cup {i},
                       !.net = netSet(@, i, lineCount(newDoc) - lineCount(st.doc)),
                       !.edits = Append(@, Edit(adjusted, endLine, text, TRUE))],
            i + 1, failAt, failKind)

\* applyAllRemaining clearing the session also after a failure.
ApplyAllRemainingClearing(fileUri, failAt, failKind) ==
  /\ UNCHANGED <<originalText, chunks, reviews, result, inFlight, detached>>
  /\ IF ~sessionOpen \/ fileUri # SessionUri THEN Quiet
     ELSE
       LET st == applyAllLoop(
                   [doc |-> doc, applied |-> appliedHunkIndices,
                    net |-> netLineChangesByHunkIndex, edits |-> <<>>,
                    end |-> "run", at |-> 0],
                   0, failAt, failKind)
       IN
       /\ doc' = st.doc
       /\ appliedHunkIndices' = st.applied
       /\ netLineChangesByHunkIndex' = st.net
       /\ edits' = st.edits
       /\ sessionOpen' = FALSE
       /\ shown' =
            IF st.end = "done"
            THEN <<Msg("info", "All remaining hunks applied.", 0)>>
            ELSE IF st.end = "uncaught"
            THEN <<Msg("uncaught", "Position: line must be non-negative", 0)>>
            ELSE <<Msg("error",
                       IF st.end = "fail" THEN "Failed to apply hunk during 'Apply All'"
                       ELSE "Error applying hunk during 'Apply All'", st.at + 1)>>
       /\ UNCHANGED <<skippedHunkIndices, activeHunkIndex>>

\* quick-diff-apply.applyAllRemainingInFile
ApplyAllRemaining(fileUri, failAt, failKind) ==
  /\ UNCHANGED <<originalText, chunks, reviews, result, inFlight, detached>>
  /\ IF ~sessionOpen \/ fileUri # SessionUri THEN Quiet
     ELSE
       LET st == applyAllLoop(
                   [doc |-> doc, applied |-> appliedHunkIndices,
                    net |-> netLineChangesByHunkIndex, edits |-> <<>>,
                    end |-> "run", at |-> 0],
                   0, failAt, failKind)
       IN
       /\ doc' = st.doc
       /\ appliedHunkIndices' = st.applied
       /\ netLineChangesByHunkIndex' = st.net
       /\ edits' = st.edits
       /\ sessionOpen' = (st.end # "done")
       /\ shown' =
            IF st.end = "done"
            THEN <<Msg("info", "All remaining hunks applied.", 0)>>
            ELSE IF st.end = "uncaught"
            THEN <<Msg("uncaught", "Position: line must be non-negative", 0)>>
            ELSE <<Msg("error",
                       IF st.end = "fail" THEN "Failed to apply hunk during 'Apply All'"
                       ELSE "Error applying hunk during 'Apply All'", st.at + 1)>>
       /\ UNCHANGED <<skippedHunkIndices, activeHunkIndex>>

\* discardAll that undoes the hunks applied: the document is the original again.
DiscardAllRollingBack(fileUri) ==
  /\ UNCHANGED <<originalText, chunks, reviews, result, inFlight, detached>>
  /\ IF ~sessionOpen \/ fileUri # SessionUri THEN Quiet
     ELSE
       /\ sessionOpen' = FALSE
       /\ doc' = originalText
       /\ shown' = <<Msg("info", "Changes discarded for this file.", 0)>>
       /\ edits' = <<>>
       /\ UNCHANGED <<appliedHunkIndices, skippedHunkIndices,
                      netLineChangesByHunkIndex, activeHunkIndex>>

\* quick-diff-apply.discardAllInFile
\* discardAll without the comparison of the uris.
DiscardAllAnyFile(fileUri) ==
  /\ UNCHANGED <<originalText, chunks, reviews, result, inFlight, detached>>
  /\ IF ~sessionOpen THEN Quiet
     ELSE
       /\ sessionOpen' = FALSE
       /\ shown' = <<Msg("info", "Changes discarded for this file.", 0)>>
       /\ edits' = <<>>
       /\ UNCHANGED <<doc, appliedHunkIndices, skippedHunkIndices,
                      netLineChangesByHunkIndex, activeHunkIndex>>

DiscardAll(fileUri) ==
  /\ UNCHANGED <<originalText, chunks, reviews, result, inFlight, detached>>
  /\ IF ~sessionOpen \/ fileUri # SessionUri THEN Quiet
     ELSE
       /\ sessionOpen' = FALSE
       /\ shown' = <<Msg("info", "Changes discarded for this file.", 0)>>
       /\ edits' = <<>>
       /\ UNCHANGED <<doc, appliedHunkIndices, skippedHunkIndices,
                      netLineChangesByHunkIndex, activeHunkIndex>>

\* The editor's answers to an edit: accepted, or refused (applyEdit resolves to
\* false or throws; the handlers treat both alike, but for the message).
Outcomes == {"ok", "fail", "throw"}

\* The arguments of a command that names another file are not looked at.
Next ==
  \/ StartInlineDiffReview
  \/ \E hunkIndex \in 0..NumHunks, outcome \in Outcomes :
       ApplyHunkOnly(SessionUri, hunkIndex, outcome)
  \/ ApplyHunkOnly(OtherUri, 0, "ok")
  \/ \E hunkIndex \in 0..NumHunks : SkipHunk(SessionUri, hunkIndex)
  \/ SkipHunk(OtherUri, 0)
  \/ \E failAt \in 0..NumHunks, failKind \in {"fail", "throw"} :
       ApplyAllRemaining(SessionUri, failAt, failKind)
  \/ ApplyAllRemaining(OtherUri, 0, "fail")
  \/ \E fileUri \in Uris : DiscardAll(fileUri)

Spec == Init /\ [][Next]_vars

\* The shapes of the hunks of a review of three hunks: a deleted line, and a
\* line replaced by two.
ShapesThree == { <<"del">>, <<"del", "add", "add">> }

\* A review of three hunks, one on each line of a text of three lines.
InitThree ==
  \E finalNewline \in BOOLEAN :
    \E hs \in [1..3 -> (1..3) \X ShapesThree] :
      /\ \A k \in 1..3 : hs[k][1] = k
      /\ doc = Text(3, finalNewline)
      /\ originalText = doc
      /\ chunks = MkChunks([k \in 1..3 |-> <<OrigChr[k]>>], hs, 0)
      /\ sessionOpen = FALSE
      /\ appliedHunkIndices = {}
      /\ skippedHunkIndices = {}
      /\ netLineChangesByHunkIndex = EmptyMap
      /\ activeHunkIndex = {}
      /\ shown = <<>>
      /\ edits = <<>>
      /\ reviews = 0
      /\ result = NoCall
      /\ inFlight = <<>>
      /\ detached = NoSession

SpecThree == InitThree /\ [][Next]_vars

\* The shapes of the first hunk of a review of a longer text: those of Shapes
\* and an insertion of two lines.
ShapesOffset == Shapes \cup { <<"add", "add">> }

\* A review of two hunks on a text of five or six lines: the first hunk at the
\* top of the text (oldStart 0 or 1), the second one at line 5.
InitOffset ==
  \E n \in 5..6, finalNewline \in BOOLEAN :
    \E first \in (0..1) \X ShapesOffset, second \in {5} \X Shapes :
      /\ doc = Text(n, finalNewline)
      /\ originalText = doc
      /\ chunks = MkChunks([k \in 1..n |-> <<OrigChr[k]>>], <<first, second>>, 0)
      /\ sessionOpen = FALSE
      /\ appliedHunkIndices = {}
      /\ skippedHunkIndices = {}
      /\ netLineChangesByHunkIndex = EmptyMap
      /\ activeHunkIndex = {}
      /\ shown = <<>>
      /\ edits = <<>>
      /\ reviews = 0
      /\ result = NoCall
      /\ inFlight = <<>>
      /\ detached = NoSession

SpecOffset == InitOffset /\ [][Next]_vars

\* After the first review of a run, at most MaxRestarts more are started.
MaxRestarts == 1

\* A later review that takes over the sets and the map of the session before.
RestartInlineDiffReviewCarryingOver ==
  /\ reviews >= 1
  /\ reviews < MaxReviews + MaxRestarts
  /\ reviews' = reviews + 1
  /\ sessionOpen' = TRUE
  /\ originalText' = doc
  /\ activeHunkIndex' = nextHunkIndex(chunks, appliedHunkIndices, skippedHunkIndices)
  /\ shown' = <<>>
  /\ edits' = <<>>
  /\ UNCHANGED <<doc, chunks, result, appliedHunkIndices, skippedHunkIndices,
                 netLineChangesByHunkIndex, inFlight, detached>>

\* applyDiff on the file reviewed before: startInlineDiffReview clears the
\* session that is active, if any, and builds a new one on the document as it
\* is now.
RestartInlineDiffReview ==
  /\ reviews >= 1
  /\ reviews < MaxReviews + MaxRestarts
  /\ reviews' = reviews + 1
  /\ sessionOpen' = TRUE
  /\ originalText' = doc
  /\ appliedHunkIndices' = {}
  /\ skippedHunkIndices' = {}
  /\ netLineChangesByHunkIndex' = EmptyMap
  /\ activeHunkIndex' = nextHunkIndex(chunks, {}, {})
  /\ shown' = <<>>
  /\ edits' = <<>>
  /\ UNCHANGED <<doc, chunks, result, inFlight, detached>>

\* The diffs of a run with more than one review: hunks of the shapes of
\* ShapesThree.
InitRestart ==
  \E n \in 1..MaxLines, finalNewline \in BOOLEAN :
    \E hs \in {h \in HunkSpecs(n) : \A k \in 1..Len(h) : h[k][2] \in ShapesThree} :
      /\ doc = Text(n, finalNewline)
      /\ originalText = doc
      /\ chunks = MkChunks([k \in 1..n |-> <<OrigChr[k]>>], hs, 0)
      /\ sessionOpen = FALSE
      /\ appliedHunkIndices = {}
      /\ skippedHunkIndices = {}
      /\ netLineChangesByHunkIndex = EmptyMap
      /\ activeHunkIndex = {}
      /\ shown = <<>>
      /\ edits = <<>>
      /\ reviews = 0
      /\ result = NoCall
      /\ inFlight = <<>>
      /\ detached = NoSession

NextRestart ==
  \/ Next
  \/ RestartInlineDiffReview

SpecRestart == InitRestart /\ [][NextRestart]_vars

\* ------------------------------------------------------------- applyDiff

\* applyDiff invoked without a context uri.
NoUri == "none"

\* What applyDiff finds in the clipboard: nothing, a text without a diff, a diff
\* not suitable for the inline review of the context file (several files, a new
\* or deleted file, another file name), or a diff of one file for the inline
\* review of the context file.
Clipboards == {"empty", "nodiff", "unsuitable", "review"}

\* applyDiff: a session for another context, or any session when no context is
\* given, is cleared first; then the clipboard is read, and the handler returns
\* with a warning, or falls back to the preview of the diff (taken here as
\* dismissed by the user), or starts the inline review of the context file.
\* The one document of the model is the file of SessionUri, so a review is
\* started for that file only.
ApplyDiff(contextUri, clipboard) ==
  /\ clipboard = "review" =>
       (contextUri = SessionUri /\ reviews < MaxReviews + MaxRestarts)
  /\ UNCHANGED <<doc, chunks, result, inFlight, detached>>
  /\ IF clipboard = "review"
     THEN /\ reviews' = reviews + 1
          /\ sessionOpen' = TRUE
          /\ originalText' = doc
          /\ appliedHunkIndices' = {}
          /\ skippedHunkIndices' = {}
          /\ netLineChangesByHunkIndex' = EmptyMap
          /\ activeHunkIndex' = nextHunkIndex(chunks, {}, {})
          /\ shown' = <<>>
          /\ edits' = <<>>
     ELSE /\ sessionOpen' = (sessionOpen /\ contextUri = SessionUri)
          /\ shown' = <<Msg("warning", clipboard, 0)>>
          /\ edits' = <<>>
          /\ UNCHANGED <<originalText, reviews, appliedHunkIndices,
                         skippedHunkIndices, netLineChangesByHunkIndex,
                         activeHunkIndex>>

NextApplyDiff ==
  \/ Next
  \/ \E contextUri \in Uris \cup {NoUri}, clipboard \in Clipboards :
       ApplyDiff(contextUri, clipboard)

SpecApplyDiff == InitRestart /\ [][NextApplyDiff]_vars

\* -------------------------------------------- handlers suspended at an await

\* At most MaxInFlight edits are submitted to the editor and not yet completed.
MaxInFlight == 2

\* An edit a handler has submitted with applyEdit and awaits: the handler, the
\* session object whose sets the handler holds (the number of the review that
\* built it), the hunk, the range and the text of the edit, and the lineCount
\* the handler has read before the await.
Request(cmd, session, hunkIndex, startLine, endLine, text, oldLineCount) ==
  [cmd |-> cmd, session |-> session, hunk |-> hunkIndex, startLine |-> startLine,
   endLine |-> endLine, text |-> text, oldLineCount |-> oldLineCount]

\* startInlineDiffReview on the file reviewed before, at any moment: the session
\* object before stays with the handlers that hold it, the new one previews its
\* first hunk.
RestartInlineDiffReviewDetaching ==
  /\ reviews >= 1
  /\ reviews < MaxReviews + MaxRestarts
  /\ reviews' = reviews + 1
  /\ sessionOpen' = TRUE
  /\ originalText' = doc
  /\ detached' = [applied |-> appliedHunkIndices, skipped |-> skippedHunkIndices,
                  net |-> netLineChangesByHunkIndex]
  /\ appliedHunkIndices' = {}
  /\ skippedHunkIndices' = {}
  /\ netLineChangesByHunkIndex' = EmptyMap
  /\ activeHunkIndex' = nextHunkIndex(chunks, {}, {})
  /\ shown' = <<>>
  /\ edits' = <<>>
  /\ UNCHANGED <<doc, chunks, result, inFlight>>

\* applyHunkOnly from its invocation to its await of applyEdit: the guards, the
\* range, the text, the lineCount read, the request.
InvokeApplyHunkOnly(fileUri, hunkIndex) ==
  /\ Len(inFlight) < MaxInFlight
  /\ UNCHANGED <<originalText, chunks, reviews, result, detached>>
  /\ IF ~sessionOpen \/ fileUri # SessionUri THEN Quiet /\ UNCHANGED inFlight
     ELSE IF hunkIndex \in appliedHunkIndices \/ hunkIndex \in skippedHunkIndices
     THEN Quiet /\ UNCHANGED inFlight
     ELSE IF hunkIndex < 0 \/ hunkIndex >= NumHunks
     THEN Report(<<Msg("error", "Invalid hunk index.", 0)>>) /\ UNCHANGED inFlight
     ELSE
       LET hunk     == chunks[hunkIndex + 1]
           adjusted == getAdjustedStartLineForHunk(hunkIndex)
       IN
       IF invalidRange(adjusted, hunk.oldLines, lineCount(doc))
       THEN Report(<<Msg("error", "Cannot apply hunk: Invalid line numbers", 0)>>)
            /\ UNCHANGED inFlight
       ELSE IF adjusted < 0
       THEN Report(<<Msg("uncaught", "Position: line must be non-negative", 0)>>)
            /\ UNCHANGED inFlight
       ELSE
         /\ Quiet
         /\ inFlight' = Append(inFlight,
              Request("applyHunkOnly", reviews, hunkIndex, adjusted,
                      adjusted + hunk.oldLines, newTextForHunk(hunk), lineCount(doc)))

\* The first index from i on that is in neither set: where the loop of
\* applyAllRemaining stops skipping; {} when it runs off the chunks.
loopNext(i, applied, skipped) ==
  LET rest == {j \in i..(NumHunks - 1) : j \notin applied /\ j \notin skipped}
  IN  IF rest = {} THEN {} ELSE {CHOOSE j \in rest : \A k \in rest : j <= k}

\* The loop of applyAllRemaining from index i to its next await or to its end:
\* the handler holds the sets applied and skipped of session object number
\* session, getAdjustedStartLineForHunk reads the session that is active now
\* (open, with the sets gApplied and gNet), the document has the text docNow,
\* and messages were shown on the way.
ApplyAllLoopFrom(i, session, applied, skipped, open, gApplied, gNet, docNow, queue, messages) ==
  LET next == loopNext(i, applied, skipped) IN
  IF next = {}
  THEN /\ shown' = messages \o <<Msg("info", "All remaining hunks applied.", 0)>>
       /\ sessionOpen' = FALSE
       /\ inFlight' = queue
  ELSE
    LET j        == CHOOSE k \in next : TRUE
        hunk     == chunks[j + 1]
        adjusted == IF open THEN adjustedStartLine(chunks, gApplied, gNet, j) ELSE -1
    IN
    IF adjusted < 0
    THEN /\ shown' = messages \o <<Msg("uncaught", "Position: line must be non-negative", 0)>>
         /\ sessionOpen' = open
         /\ inFlight' = queue
    ELSE /\ shown' = messages
         /\ sessionOpen' = open
         /\ inFlight' = Append(queue,
              Request("applyAllRemaining", session, j, adjusted,
                      adjusted + hunk.oldLines, newTextForHunk(hunk), lineCount(docNow)))

\* applyAllRemaining from its invocation to its first await of applyEdit.
InvokeApplyAllRemaining(fileUri) ==
  /\ Len(inFlight) < MaxInFlight
  /\ UNCHANGED <<originalText, chunks, reviews, result, detached>>
  /\ IF ~sessionOpen \/ fileUri # SessionUri THEN Quiet /\ UNCHANGED inFlight
     ELSE
       /\ ApplyAllLoopFrom(0, reviews, appliedHunkIndices, skippedHunkIndices,
                           TRUE, appliedHunkIndices, netLineChangesByHunkIndex,
                           doc, inFlight, <<>>)
       /\ edits' = <<>>
       /\ UNCHANGED <<doc, appliedHunkIndices, skippedHunkIndices,
                      netLineChangesByHunkIndex, activeHunkIndex>>

\* applyHunkOnly after its await: with the sets cap the handler holds (the new
\* entry in them when the edit was accepted), the messages, refresh() on the
\* session that is active now (a TypeError, caught, when there is none), the
\* test for all hunks processed that clears the session that is active now,
\* and the preview of the next pending hunk in the session that is active then.
ResumeApplyHunkOnly(r, outcome, cap) ==
  LET all       == allHunksProcessed(chunks, cap.applied, cap.skipped)
      typeError == outcome = "ok" /\ ~sessionOpen
      cleared   == outcome = "ok" /\ sessionOpen /\ all
      next      == nextHunkIndex(chunks, cap.applied, cap.skipped)
  IN
  /\ inFlight' = Tail(inFlight)
  /\ sessionOpen' = (sessionOpen /\ ~cleared)
  /\ shown' =
       IF outcome = "ok"
       THEN <<Msg("info", "Hunk applied.", r.hunk + 1)>>
            \o (IF typeError THEN <<Msg("error", "Error applying hunk", r.hunk + 1)>>
                ELSE IF all THEN <<Msg("info", "All hunks processed.", 0)>>
                ELSE <<>>)
       ELSE <<Msg("error",
                  IF outcome = "fail" THEN "Failed to apply hunk"
                  ELSE "Error applying hunk", r.hunk + 1)>>
  /\ activeHunkIndex' =
       IF sessionOpen /\ ~cleared /\ next # {} THEN next ELSE activeHunkIndex

\* applyAllRemaining submitting a rejected edit again.
ResumeApplyAllRemainingRetrying(r, outcome, cap, gApplied, gNet, newDoc) ==
  /\ UNCHANGED activeHunkIndex
  /\ IF outcome = "ok"
     THEN ApplyAllLoopFrom(r.hunk + 1, r.session, cap.applied, cap.skipped,
                           sessionOpen, gApplied, gNet, newDoc, Tail(inFlight), <<>>)
     ELSE
       /\ inFlight' = Append(Tail(inFlight), r)
       /\ sessionOpen' = sessionOpen
       /\ shown' = <<>>

\* applyAllRemaining after an await: the loop goes on behind an accepted edit
\* and ends at a rejected one (refresh() on no session throws out of the
\* handler).
ResumeApplyAllRemaining(r, outcome, cap, gApplied, gNet, newDoc) ==
  /\ UNCHANGED activeHunkIndex
  /\ IF outcome = "ok"
     THEN ApplyAllLoopFrom(r.hunk + 1, r.session, cap.applied, cap.skipped,
                           sessionOpen, gApplied, gNet, newDoc, Tail(inFlight), <<>>)
     ELSE
       /\ inFlight' = Tail(inFlight)
       /\ sessionOpen' = sessionOpen
       /\ shown' =
            <<Msg("error",
                  IF outcome = "fail" THEN "Failed to apply hunk during 'Apply All'"
                  ELSE "Error applying hunk during 'Apply All'", r.hunk + 1)>>
            \o (IF sessionOpen THEN <<>>
                ELSE <<Msg("uncaught", "TypeError: codeLensProvider of undefined", 0)>>)

\* The editor completes the edit submitted first, and the handler that awaits
\* it runs to its next await or to its end.  The handler writes to the sets of
\* the session object it holds: the one built last, or the one before.
CompleteEdit(outcome) ==
  /\ inFlight # <<>>
  /\ UNCHANGED <<originalText, chunks, reviews, result, skippedHunkIndices>>
  /\ LET r      == Head(inFlight)
         own    == r.session = reviews
         held   == IF own
                   THEN [applied |-> appliedHunkIndices, skipped |-> skippedHunkIndices,
                         net |-> netLineChangesByHunkIndex]
                   ELSE detached
         newDoc == IF outcome = "ok"
                   THEN replaceRange(doc, r.startLine, r.endLine, r.text) ELSE doc
         cap    == IF outcome = "ok"
                   THEN [applied |-> held.applied \cup {r.hunk},
                         skipped |-> held.skipped,
                         net     |-> netSet(held.net, r.hunk,
                                            lineCount(newDoc) - r.oldLineCount)]
                   ELSE held
         gApplied == IF own THEN cap.applied ELSE appliedHunkIndices
         gNet     == IF own THEN cap.net ELSE netLineChangesByHunkIndex
     IN
     /\ doc' = newDoc
     /\ edits' = <<Edit(r.startLine, r.endLine, r.text, outcome = "ok")>>
     /\ appliedHunkIndices' = gApplied
     /\ netLineChangesByHunkIndex' = gNet
     /\ detached' = IF own THEN detached ELSE cap
     /\ IF r.cmd = "applyHunkOnly"
        THEN ResumeApplyHunkOnly(r, outcome, cap)
        ELSE ResumeApplyAllRemaining(r, outcome, cap, gApplied, gNet, newDoc)

\* The commands arriving at any moment, also while a handler awaits its edit.
NextAsync ==
  \/ StartInlineDiffReview
  \/ \E hunkIndex \in 0..(NumHunks - 1) : InvokeApplyHunkOnly(SessionUri, hunkIndex)
  \/ InvokeApplyAllRemaining(SessionUri)
  \/ \E outcome \in Outcomes : CompleteEdit(outcome)
  \/ \E hunkIndex \in 0..(NumHunks - 1) : SkipHunk(SessionUri, hunkIndex)
  \/ DiscardAll(SessionUri)

\* The reviews in which commands overlap: a text of MaxLines lines and a diff
\* of hunks of the shapes of ShapesThree that start on lines of the text.
InitAsync ==
  \E finalNewline \in BOOLEAN :
    \E hs \in {h \in HunkSpecs(MaxLines) :
                /\ Len(h) >= 1
                /\ \A k \in 1..Len(h) : h[k][1] \in 1..MaxLines /\ h[k][2] \in ShapesThree} :
      /\ doc = Text(MaxLines, finalNewline)
      /\ originalText = doc
      /\ chunks = MkChunks([k \in 1..MaxLines |-> <<OrigChr[k]>>], hs, 0)
      /\ sessionOpen = FALSE
      /\ appliedHunkIndices = {}
      /\ skippedHunkIndices = {}
      /\ netLineChangesByHunkIndex = EmptyMap
      /\ activeHunkIndex = {}
      /\ shown = <<>>
      /\ edits = <<>>
      /\ reviews = 0
      /\ result = NoCall
      /\ inFlight = <<>>
      /\ detached = NoSession

SpecAsync == InitAsync /\ [][NextAsync]_vars

\* The same with a second review started at any moment.
NextAsyncRestart ==
  \/ NextAsync
  \/ RestartInlineDiffReviewDetaching

\* The reviews of InitAsync on a text that ends with a newline.
InitAsyncRestart == InitAsync /\ endsWithNL(doc)

SpecAsyncRestart == InitAsyncRestart /\ [][NextAsyncRestart]_vars

\* ------------------------------------------------ the batch functions called

\* The index lists handed to applySelectedHunksToContent have at most
\* MaxSelected entries.
MaxSelected == 2

\* A text of n lines whose line blankAt (if any) is empty.
TextWithBlank(n, blankAt, finalNewline) ==
  join([k \in 1..n |-> IF k = blankAt THEN <<>> ELSE <<OrigChr[k]>>]
       \o (IF finalNewline THEN << <<>> >> ELSE <<>>))

PureShapes == Shapes \cup { <<"del", "blank">> }

PureHunkSpecs(n) ==
  {hs \in UNION {[1..m -> (0..(n + 2)) \X PureShapes] : m \in 0..MaxHunks} :
     Ascending(hs)}

IndexLists(numHunks) == UNION {[1..m -> 0..numHunks] : m \in 0..MaxSelected}

PureInit ==
  \E n \in 0..MaxLines, finalNewline \in BOOLEAN :
    \E blankAt \in 0..n, hs \in PureHunkSpecs(n) :
      /\ originalText = TextWithBlank(n, blankAt, finalNewline)
      /\ doc = originalText
      /\ chunks = MkChunks([k \in 1..n |-> IF k = blankAt THEN <<>> ELSE <<OrigChr[k]>>],
                           hs, 0)
      /\ sessionOpen = FALSE
      /\ appliedHunkIndices = {}
      /\ skippedHunkIndices = {}
      /\ netLineChangesByHunkIndex = EmptyMap
      /\ activeHunkIndex = {}
      /\ shown = <<>>
      /\ edits = <<>>
      /\ reviews = 0
      /\ result = NoCall
      /\ inFlight = <<>>
      /\ detached = NoSession

sessionVars == <<doc, originalText, chunks, sessionOpen, appliedHunkIndices,
                 skippedHunkIndices, netLineChangesByHunkIndex, activeHunkIndex,
                 shown, edits, reviews, inFlight, detached>>

CallApplyPatchToContent ==
  /\ result.fn = "none"
  /\ result' = [fn |-> "applyPatchToContent", indices |-> <<>>,
                out |-> applyPatchToContent(originalText, chunks)]
  /\ UNCHANGED sessionVars

CallApplyPatchToContentNewStart ==
  /\ result.fn = "none"
  /\ result' = [fn |-> "applyPatchToContentNewStart", indices |-> <<>>,
                out |-> applyPatchToContentNewStart(originalText, chunks)]
  /\ UNCHANGED sessionVars

CallApplyPatchToContentForward ==
  /\ result.fn = "none"
  /\ result' = [fn |-> "applyPatchToContentForward", indices |-> <<>>,
                out |-> applyPatchToContentForward(originalText, chunks)]
  /\ UNCHANGED sessionVars

CallApplySelectedHunksToContent(indices) ==
  /\ result.fn = "none"
  /\ result' = [fn |-> "applySelectedHunksToContent", indices |-> indices,
                out |-> applySelectedHunksToContent(originalText, chunks, indices)]
  /\ UNCHANGED sessionVars

PureNext ==
  \/ CallApplyPatchToContent
  \/ CallApplyPatchToContentNewStart
  \/ CallApplyPatchToContentForward
  \/ \E indices \in IndexLists(NumHunks) : CallApplySelectedHunksToContent(indices)

SpecPure == PureInit /\ [][PureNext]_vars

\* ------------------------------------------------------- new-file diffs

\* The add lines of a chunk, each followed by a newline.
RECURSIVE addedText(_)
addedText(changes) ==
  IF changes = <<>> THEN <<>>
  ELSE IF Head(changes).type = "add"
       THEN substring1(Head(changes).content) \o <<NL>> \o addedText(Tail(changes))
       ELSE addedText(Tail(changes))

\* for (const chunk of fileDiff.chunks) for (const change of chunk.changes) ...
RECURSIVE newFileLoop(_)
newFileLoop(cs) ==
  IF cs = <<>> THEN <<>> ELSE addedText(Head(cs).changes) \o newFileLoop(Tail(cs))

\* String.prototype.slice(0, -1).
sliceLast(t) == IF Len(t) = 0 THEN <<>> ELSE SubSeq(t, 1, Len(t) - 1)

\* The content with the newline after its last line left in place.
getNewFileContentFromDiffKeepingNewline(cs) == newFileLoop(cs)

\* getNewFileContentFromDiff of extension.ts: the add lines.
getNewFileContentFromDiff(cs) ==
  LET newFileContent == newFileLoop(cs)
  IN  IF endsWithNL(newFileContent) THEN sliceLast(newFileContent) ELSE newFileContent

\* fileDiff.chunks.forEach(chunk => chunk.changes.forEach(...)), add and normal.
RECURSIVE newFileLoopCommands(_)
newFileLoopCommands(cs) ==
  IF cs = <<>> THEN <<>> ELSE chunkText(Head(cs).changes) \o newFileLoopCommands(Tail(cs))

\* getNewFileContentFromDiff of commands.ts: the add and normal lines.
getNewFileContentFromDiffCommands(cs) ==
  LET newContent == newFileLoopCommands(cs)
  IN  IF Len(newContent) > 0 THEN sliceLast(newContent) ELSE newContent

\* A hunk of a diff that creates a file inserts at most MaxAdds lines.
MaxAdds == 2

\* The shapes of the hunks of a diff that creates a file: add changes only, of
\* lines with text and of empty lines.
NewFileShapes == UNION {[1..m -> {"add", "blank"}] : m \in 0..MaxAdds}

\* A diff that creates a file: no original text, every hunk with header -0,0.
InitNewFile ==
  \E hs \in UNION {[1..m -> {0} \X NewFileShapes] : m \in 0..MaxHunks} :
    /\ originalText = <<>>
    /\ doc = originalText
    /\ chunks = MkChunks(<<>>, hs, 1)
    /\ sessionOpen = FALSE
    /\ appliedHunkIndices = {}
    /\ skippedHunkIndices = {}
    /\ netLineChangesByHunkIndex = EmptyMap
    /\ activeHunkIndex = {}
    /\ shown = <<>>
    /\ edits = <<>>
    /\ reviews = 0
    /\ result = NoCall
    /\ inFlight = <<>>
    /\ detached = NoSession

CallGetNewFileContentFromDiff ==
  /\ result.fn = "none"
  /\ result' = [fn |-> "getNewFileContentFromDiff", indices |-> <<>>,
                out |-> getNewFileContentFromDiff(chunks)]
  /\ UNCHANGED sessionVars

CallGetNewFileContentFromDiffCommands ==
  /\ result.fn = "none"
  /\ result' = [fn |-> "getNewFileContentFromDiffCommands", indices |-> <<>>,
                out |-> getNewFileContentFromDiffCommands(chunks)]
  /\ UNCHANGED sessionVars

NextNewFile ==
  \/ CallGetNewFileContentFromDiff
  \/ CallGetNewFileContentFromDiffCommands

SpecNewFile == InitNewFile /\ [][NextNewFile]_vars

\* ================================================================== claims

ValidIndices == 0..(NumHunks - 1)

Pending(i) == i \notin appliedHunkIndices /\ i \notin skippedHunkIndices

\* The lines s, ..., s + n - 1 (0-based) of a text, as far as it has them.
RECURSIVE Region(_, _, _)
Region(lines, s, n) ==
  IF n <= 0 THEN <<>>
  ELSE (IF s >= 0 /\ s < Len(lines) THEN <<lines[s + 1]>> ELSE <<>>)
       \o Region(lines, s + 1, n - 1)

\* What hunk i inserts minus what it removes.
InsertedMinusRemoved(i) == Len(insertLines(chunks[i + 1])) - chunks[i + 1].oldLines

\* Every accepted edit changed the line count by inserted minus removed lines.
EditsRegular ==
  \A j \in appliedHunkIndices \cap ValidIndices :
    netGet(netLineChangesByHunkIndex, j) = InsertedMinusRemoved(j)

\* C1 (as stated): in an open session whose accepted edits all changed the line
\* count by inserted minus removed lines, the old region of every pending hunk i
\* sits at getAdjustedStartLine(i) in the live document: the live lines
\* [adjusted, adjusted + oldLines) are the original lines
\* [oldStart - 1, oldStart - 1 + oldLines).
C1_PendingRegionInPlace ==
  (sessionOpen /\ EditsRegular) =>
    \A i \in ValidIndices :
      Pending(i) =>
        Region(split(doc), getAdjustedStartLineForHunk(i), chunks[i + 1].oldLines)
          = Region(split(originalText), chunks[i + 1].oldStart - 1,
                   chunks[i + 1].oldLines)

\* The number of lines of text of the original: its final newline ends the last
\* line, it does not begin another one.
TextLines(text) ==
  IF text = <<>> THEN 0
  ELSE IF endsWithNL(text) THEN lineCount(text) - 1 ELSE lineCount(text)

\* Every hunk lies within the lines of the original text.
HunksWithin(text, cs) ==
  \A k \in 1..Len(cs) :
    /\ cs[k].oldStart >= 1
    /\ cs[k].oldStart - 1 + cs[k].oldLines <= TextLines(text)

\* The same holds when the original text ends with a newline and every hunk
\* lies within its lines.
PendingRegionInPlaceWithinText ==
  (sessionOpen /\ EditsRegular /\ endsWithNL(originalText)
     /\ HunksWithin(originalText, chunks)) =>
    \A i \in ValidIndices :
      Pending(i) =>
        Region(split(doc), getAdjustedStartLineForHunk(i), chunks[i + 1].oldLines)
          = Region(split(originalText), chunks[i + 1].oldStart - 1,
                   chunks[i + 1].oldLines)

\* The sum of the map's entries over a set of indices.
RECURSIVE SumOver(_, _)
SumOver(net, S) ==
  IF S = {} THEN 0
  ELSE LET j == CHOOSE j \in S : TRUE IN net[j] + SumOver(net, S \ {j})

\* C2: in an open session, for every valid hunk index i,
\* getAdjustedStartLine(i) is hunk[i].oldStart - 1 plus the entries of
\* netLineDelta of exactly the applied hunks j < i (each of which has an entry).
C2_AdjustedStartLineIsSum ==
  sessionOpen =>
    \A i \in ValidIndices :
      LET before == {j \in appliedHunkIndices : j < i} IN
        /\ before \subseteq DOMAIN netLineChangesByHunkIndex
        /\ getAdjustedStartLineForHunk(i)
             = chunks[i + 1].oldStart - 1 + SumOver(netLineChangesByHunkIndex, before)

\* A hunk with a nonzero delta is applied, a later hunk is pending and moved.
C2_Witness ==
  /\ sessionOpen
  /\ \E i \in ValidIndices, j \in appliedHunkIndices :
       /\ j < i
       /\ Pending(i)
       /\ netLineChangesByHunkIndex[j] # 0
       /\ getAdjustedStartLineForHunk(i) # chunks[i + 1].oldStart - 1

\* No hunk reaches into the next one.
NonOverlapping(cs) ==
  \A k \in 1..(Len(cs) - 1) : cs[k].oldStart + cs[k].oldLines <= cs[k + 1].oldStart

\* Every hunk starts after the one before it.
AscendingStarts(cs) ==
  \A k \in 1..(Len(cs) - 1) : cs[k].oldStart < cs[k + 1].oldStart

\* C3 (as stated): applyAllRemaining on a fresh session, when it runs to its
\* end, leaves the document applyAll yields for the original text and the hunks.
C3_InteractiveEqualsBatch ==
  [][(/\ sessionOpen
      /\ appliedHunkIndices = {}
      /\ skippedHunkIndices = {}
      /\ doc = originalText
      /\ NonOverlapping(chunks)
      /\ AscendingStarts(chunks)
      /\ HunksWithin(originalText, chunks)
      /\ ApplyAllRemaining(SessionUri, NumHunks, "fail")
      /\ ~sessionOpen')
     => doc' = applyPatchToContent(originalText, chunks)]_vars

\* What applyHunkOnly makes of document, applied set and deltas when the editor
\* accepts the edit; ok turns FALSE when the handler refuses the hunk.
applyHunkTo(s, i) ==
  LET hunk     == chunks[i + 1]
      adjusted == adjustedStartLine(chunks, s.applied, s.net, i)
      newDoc   == replaceRange(s.doc, adjusted, adjusted + hunk.oldLines,
                               newTextForHunk(hunk))
  IN  IF ~s.ok \/ adjusted < 0 \/ invalidRange(adjusted, hunk.oldLines, lineCount(s.doc))
      THEN [s EXCEPT !.ok = FALSE]
      ELSE [doc     |-> newDoc,
            applied |-> s.applied \cup {i},
            net     |-> netSet(s.net, i, lineCount(newDoc) - lineCount(s.doc)),
            ok      |-> TRUE]

\* C4 (as stated): from every state of an open session, applying two pending
\* hunks in one order and in the other yields the same document and the same
\* deltas (any two orders of a set differ by such exchanges).
C4_OrderIndependent ==
  (/\ sessionOpen
   /\ NonOverlapping(chunks)
   /\ AscendingStarts(chunks)
   /\ HunksWithin(originalText, chunks)) =>
    \A i, j \in ValidIndices :
      (i < j /\ Pending(i) /\ Pending(j)) =>
        LET s  == [doc |-> doc, applied |-> appliedHunkIndices,
                   net |-> netLineChangesByHunkIndex, ok |-> TRUE]
            ij == applyHunkTo(applyHunkTo(s, i), j)
            ji == applyHunkTo(applyHunkTo(s, j), i)
        IN  (ij.ok /\ ji.ok) => (ij.doc = ji.doc /\ ij.net = ji.net)

\* The lines of a text outside a set of (1-based) line numbers, in order.
RECURSIVE Keep(_, _, _)
Keep(lines, i, covered) ==
  IF i > Len(lines) THEN <<>>
  ELSE (IF i \in covered THEN <<>> ELSE <<lines[i]>>) \o Keep(lines, i + 1, covered)

OldCovered(cs) ==
  UNION {cs[k].oldStart..(cs[k].oldStart + cs[k].oldLines - 1) : k \in 1..Len(cs)}

NewCovered(cs) ==
  UNION {cs[k].newStart..(cs[k].newStart + cs[k].newLines - 1) : k \in 1..Len(cs)}

\* C5 (as stated): the result of the newStart variant of applyAll has every
\* hunk's context and insert lines at lines [newStart - 1, newStart - 1 +
\* newLines), and its other lines are the original's lines outside the hunks'
\* old regions, in their order.
C5_NewStartSplicePlacesHunks ==
  (/\ result.fn = "applyPatchToContentNewStart"
   /\ HunksWithin(originalText, chunks)
   /\ NonOverlapping(chunks)
   /\ AscendingStarts(chunks)) =>
    LET out == split(result.out) IN
      /\ \A k \in 1..Len(chunks) :
           /\ chunks[k].newStart - 1 + chunks[k].newLines <= Len(out)
           /\ SubSeq(out, chunks[k].newStart,
                     chunks[k].newStart - 1 + chunks[k].newLines)
                = insertLines(chunks[k])
      /\ join(Keep(out, 1, NewCovered(chunks)))
           = join(Keep(split(originalText), 1, OldCovered(chunks)))

\* C6 (as stated): the forward implementation of applyPatchToContent yields
\* what the bottom-to-top splice yields.
C6_SpliceEqualsForward ==
  (/\ result.fn = "applyPatchToContentForward"
   /\ HunksWithin(originalText, chunks)
   /\ NonOverlapping(chunks)
   /\ AscendingStarts(chunks)) =>
    result.out = applyPatchToContent(originalText, chunks)

NoEmptyLine(text, cs) ==
  /\ \A k \in 1..TextLines(text) : split(text)[k] # <<>>
  /\ \A k \in 1..Len(cs) :
       \A n \in 1..Len(insertLines(cs[k])) : insertLines(cs[k])[n] # <<>>

RECURSIVE WalkSelected(_, _, _, _, _)
WalkSelected(lines, cs, k, pos, S) ==
  IF k > Len(cs) THEN SubSeq(lines, pos + 1, Len(lines))
  ELSE IF (k - 1) \notin S THEN WalkSelected(lines, cs, k + 1, pos, S)
  ELSE SubSeq(lines, pos + 1, cs[k].oldStart - 1) \o insertLines(cs[k])
       \o WalkSelected(lines, cs, k + 1, cs[k].oldStart - 1 + cs[k].oldLines, S)

Range(seq) == {seq[k] : k \in 1..Len(seq)}

C9_StatusOnlyLeavesPending ==
  [][reviews' = reviews =>
       \A i \in 0..NumHunks :
         /\ i \in appliedHunkIndices =>
              (i \in appliedHunkIndices' /\ i \notin skippedHunkIndices')
         /\ i \in skippedHunkIndices =>
              (i \in skippedHunkIndices' /\ i \notin appliedHunkIndices')
         /\ ~(i \in appliedHunkIndices' /\ i \in skippedHunkIndices')]_vars

\* One hunk of the session was applied and another one skipped.
C9_Witness ==
  /\ appliedHunkIndices # {}
  /\ skippedHunkIndices \cap ValidIndices # {}

\* The text of lines, each followed by its newline.
RECURSIVE LinesText(_)
LinesText(lines) ==
  IF lines = <<>> THEN <<>> ELSE Head(lines) \o <<NL>> \o LinesText(Tail(lines))

\* The edit applyHunk(i) is to submit in the current state.
EditOfHunk(i, accepted) ==
  LET start == getAdjustedStartLineForHunk(i) IN
    Edit(start, start + chunks[i + 1].oldLines,
         LinesText(insertLines(chunks[i + 1])), accepted)

\* The range computed for hunk i lies inside the live document.
InsideDocument(i) ==
  LET start == getAdjustedStartLineForHunk(i) IN
    /\ start >= 0
    /\ chunks[i + 1].oldLines > 0 =>
         start + chunks[i + 1].oldLines <= lineCount(doc)

\* C10 (as stated): applyHunk(i) on a pending hunk submits one edit, replacing
\* lines [start, start + oldLines) by the hunk's insert and context lines, and
\* the hunk is applied when the editor accepts the edit.
C10_EditSubmitted ==
  [][\A i \in ValidIndices, outcome \in Outcomes :
       (sessionOpen /\ Pending(i) /\ ApplyHunkOnly(SessionUri, i, outcome)) =>
         /\ edits' = <<EditOfHunk(i, outcome = "ok")>>
         /\ outcome = "ok" => (i \in appliedHunkIndices' /\ i \notin skippedHunkIndices')
    ]_vars

\* C10: applyHunk(i) on a pending hunk whose computed range lies inside the
\* document (start >= 0 and, for oldLines > 0, start + oldLines <= line count)
\* submits one edit, replacing lines [start, start + oldLines) by the hunk's
\* insert and context lines in their order (by nothing for a pure deletion), and
\* the hunk is applied when the editor accepts the edit.
C10_EditSubmittedInsideDocument ==
  [][\A i \in ValidIndices, outcome \in Outcomes :
       (/\ sessionOpen
        /\ Pending(i)
        /\ InsideDocument(i)
        /\ ApplyHunkOnly(SessionUri, i, outcome)) =>
         /\ edits' = <<EditOfHunk(i, outcome = "ok")>>
         /\ outcome = "ok" => (i \in appliedHunkIndices' /\ i \notin skippedHunkIndices')
    ]_vars

\* The editor accepted the edit of a pure deletion: lines are replaced by
\* nothing and the hunk is applied.
C10_Witness ==
  /\ Len(edits) = 1
  /\ Len(shown) >= 1
  /\ shown[1].text = "Hunk applied."
  /\ edits[1].success
  /\ edits[1].text = <<>>
  /\ edits[1].endLine > edits[1].startLine
  /\ (shown[1].n - 1) \in appliedHunkIndices

\* The elements of a set of numbers in ascending order.
RECURSIVE SortedSeq(_)
SortedSeq(S) ==
  IF S = {} THEN <<>>
  ELSE LET least == CHOOSE x \in S : \A y \in S : x <= y
       IN  <<least>> \o SortedSeq(S \ {least})

\* The document after the first k of a command's edits, the accepted ones done.
RECURSIVE DocAfter(_, _, _)
DocAfter(d, es, k) ==
  IF k = 0 THEN d
  ELSE LET before == DocAfter(d, es, k - 1) IN
    IF es[k].success
    THEN replaceRange(before, es[k].startLine, es[k].endLine, es[k].text)
    ELSE before

\* C11: a hunk that becomes applied, through applyHunk or applyAllRemaining,
\* gets as netLineDelta entry the document's line count after its edit minus
\* the line count before it (whatever the hunk declares), and the entry of an
\* applied hunk is not changed as long as no new session is started.
C11_MeasuredDeltaRecordedOnce ==
  [][reviews' = reviews =>
       /\ \A i \in appliedHunkIndices :
            /\ i \in DOMAIN netLineChangesByHunkIndex
            /\ i \in DOMAIN netLineChangesByHunkIndex'
            /\ netLineChangesByHunkIndex'[i] = netLineChangesByHunkIndex[i]
       /\ LET new == SortedSeq(appliedHunkIndices' \ appliedHunkIndices) IN
            \A k \in 1..Len(new) :
              /\ new[k] \in DOMAIN netLineChangesByHunkIndex'
              /\ Len(edits') >= k
              /\ edits'[k].success
              /\ netLineChangesByHunkIndex'[new[k]]
                   = lineCount(DocAfter(doc, edits', k))
                       - lineCount(DocAfter(doc, edits', k - 1))
    ]_vars

\* An applied hunk whose recorded delta is not what the hunk declares.
C11_Witness ==
  \E i \in appliedHunkIndices \cap ValidIndices :
    /\ i \in DOMAIN netLineChangesByHunkIndex
    /\ netLineChangesByHunkIndex[i] # chunks[i + 1].newLines - chunks[i + 1].oldLines
    /\ netLineChangesByHunkIndex[i] = lineCount(doc) - lineCount(originalText)
    /\ Cardinality(appliedHunkIndices) = 1

\* C12: when the editor rejects the edit applyHunk(i) submitted, hunk i stays
\* pending, netLineDelta and the status of every hunk are as before, the
\* document is as before, the session stays open and an error is shown;
\* applyHunk(i) would submit its edit again and skipHunk(i) is not barred.
C12_RejectedEditLeavesHunkPending ==
  [][\A i \in ValidIndices, outcome \in Outcomes :
       (/\ sessionOpen
        /\ Pending(i)
        /\ ApplyHunkOnly(SessionUri, i, outcome)
        /\ Len(edits') = 1
        /\ ~edits'[1].success) =>
         /\ appliedHunkIndices' = appliedHunkIndices
         /\ skippedHunkIndices' = skippedHunkIndices
         /\ netLineChangesByHunkIndex' = netLineChangesByHunkIndex
         /\ i \notin DOMAIN netLineChangesByHunkIndex'
         /\ doc' = doc
         /\ sessionOpen'
         /\ Len(shown') = 1 /\ shown'[1].kind = "error" /\ shown'[1].n = i + 1
         /\ edits'[1] = EditOfHunk(i, FALSE)
         /\ InsideDocument(i)'
    ]_vars

\* The editor rejected the edit of applyHunk: the hunk named in the error is
\* pending in an open session.
C12_Witness ==
  /\ sessionOpen
  /\ Len(edits) = 1
  /\ ~edits[1].success
  /\ Len(shown) = 1
  /\ shown[1].text \in {"Failed to apply hunk", "Error applying hunk"}
  /\ Pending(shown[1].n - 1)
  /\ appliedHunkIndices # {}

\* The range computed for hunk i is out of the document's bounds.
OutOfBounds(i) ==
  LET start == getAdjustedStartLineForHunk(i) IN
    start < 0 \/ start + chunks[i + 1].oldLines > lineCount(doc)

\* C13 (as stated): applyHunk(i) on a pending hunk whose computed range is out
\* of the document's bounds, pure insertions included, submits no edit, leaves
\* the document, hunk i and the session as they were and shows a failure.
C13_OutOfBoundsRefused ==
  [][\A i \in ValidIndices, outcome \in Outcomes :
       (/\ sessionOpen
        /\ Pending(i)
        /\ OutOfBounds(i)
        /\ ApplyHunkOnly(SessionUri, i, outcome)) =>
         /\ edits' = <<>>
         /\ doc' = doc
         /\ i \notin appliedHunkIndices'
         /\ i \notin skippedHunkIndices'
         /\ sessionOpen'
         /\ Len(shown') = 1 /\ shown'[1].kind \in {"error", "uncaught"}
    ]_vars

\* C14: skipHunk(i) on a hunk that is not applied puts i among the skipped
\* hunks and changes nothing else: no edit is submitted, the document, the
\* applied set and netLineDelta (no entry for i) are as before, and
\* the adjusted start line of every hunk k is as before (as
\* getAdjustedStartLine(k) returns it while the session is open).
C14_SkipChangesOnlyStatus ==
  [][\A i \in ValidIndices :
       (/\ sessionOpen
        /\ i \notin appliedHunkIndices
        /\ SkipHunk(SessionUri, i)) =>
         /\ skippedHunkIndices' = skippedHunkIndices \cup {i}
         /\ appliedHunkIndices' = appliedHunkIndices
         /\ doc' = doc
         /\ edits' = <<>>
         /\ netLineChangesByHunkIndex' = netLineChangesByHunkIndex
         /\ i \notin DOMAIN netLineChangesByHunkIndex'
         /\ \A k \in ValidIndices :
              /\ adjustedStartLine(chunks, appliedHunkIndices',
                                   netLineChangesByHunkIndex', k)
                   = getAdjustedStartLineForHunk(k)
              /\ sessionOpen' =>
                   getAdjustedStartLineForHunk(k)' = getAdjustedStartLineForHunk(k)
    ]_vars

\* A hunk that changes the number of lines is skipped in an open session and a
\* later hunk is pending at its original place.
C14_Witness ==
  /\ sessionOpen
  /\ edits = <<>>
  /\ \E i \in skippedHunkIndices \cap ValidIndices, k \in ValidIndices :
       /\ i < k
       /\ Pending(k)
       /\ chunks[i + 1].newLines # chunks[i + 1].oldLines
       /\ getAdjustedStartLineForHunk(k) = chunks[k + 1].oldStart - 1

\* The applied and skipped sets, netLineDelta, activeHunk and the document are
\* as before the step.
SessionStateUnchanged ==
  UNCHANGED <<appliedHunkIndices, skippedHunkIndices, netLineChangesByHunkIndex,
              activeHunkIndex, doc>>

\* C15 (as stated, its part on the state): in a session that has hunks,
\* applyHunk(i) and skipHunk(i) with an index out of range, or with a hunk that
\* is not pending, change neither the applied and skipped sets nor netLineDelta,
\* activeHunk or the document.
C15_InvalidIndexChangesNothing ==
  [][\A i \in 0..NumHunks :
       (sessionOpen /\ NumHunks >= 1 /\ (i \notin ValidIndices \/ ~Pending(i))) =>
         /\ \A outcome \in Outcomes :
              ApplyHunkOnly(SessionUri, i, outcome) => SessionStateUnchanged
         /\ SkipHunk(SessionUri, i) => SessionStateUnchanged
    ]_vars

\* Every hunk of the session reviewed last has been applied.
AllHunksApplied ==
  /\ reviews >= 1
  /\ NumHunks >= 1
  /\ appliedHunkIndices = ValidIndices

\* Indices that name no hunk.
OutOfRangeIndices == {0 - 1, NumHunks, NumHunks + 1}

C17_TerminatedIffAllProcessed ==
  [][\A i \in ValidIndices :
       (/\ sessionOpen
        /\ \/ \E outcome \in Outcomes : ApplyHunkOnly(SessionUri, i, outcome)
           \/ SkipHunk(SessionUri, i)) =>
         (sessionOpen' <=>
            \E k \in ValidIndices :
              k \notin appliedHunkIndices' /\ k \notin skippedHunkIndices')
    ]_vars

\* The session ended with the last hunk processed, one hunk applied and one
\* skipped.
C17_Witness ==
  /\ ~sessionOpen
  /\ reviews >= 1
  /\ Len(shown) >= 1
  /\ shown[Len(shown)].text = "All hunks processed."
  /\ appliedHunkIndices # {}
  /\ skippedHunkIndices \cap ValidIndices # {}
  /\ appliedHunkIndices \cup skippedHunkIndices = ValidIndices

\* The editor rejected the last edit a command submitted.
LastEditRejected(es) == Len(es) >= 1 /\ ~es[Len(es)].success

\* C18: when an edit fails during applyAllRemaining, the run stops at that hunk
\* f: the hunks applied before stay applied with their netLineDelta, the hunks
\* pending before f are applied by accepted edits and have an entry, f and the
\* pending hunks after it stay pending, the rejected edit of f is the last edit
\* submitted, the skipped set is unchanged, one error naming f is shown and the
\* session stays open.
C18_ApplyAllStopsAtFailure ==
  [][\A f \in ValidIndices, failKind \in {"fail", "throw"} :
       (/\ sessionOpen
        /\ ApplyAllRemaining(SessionUri, f, failKind)
        /\ LastEditRejected(edits')) =>
         LET before == {j \in ValidIndices : j < f /\ Pending(j)} IN
           /\ Pending(f)
           /\ appliedHunkIndices' = appliedHunkIndices \cup before
           /\ skippedHunkIndices' = skippedHunkIndices
           /\ \A j \in appliedHunkIndices :
                netLineChangesByHunkIndex'[j] = netLineChangesByHunkIndex[j]
           /\ DOMAIN netLineChangesByHunkIndex' = appliedHunkIndices'
           /\ \A j \in ValidIndices : (j >= f /\ Pending(j)) => Pending(j)'
           /\ Len(edits') = Cardinality(before) + 1
           /\ \A k \in 1..(Len(edits') - 1) : edits'[k].success
           /\ edits'[Len(edits')] = EditOfHunk(f, FALSE)'
           /\ doc' = DocAfter(doc, edits', Len(edits'))
           /\ Len(shown') = 1 /\ shown'[1].kind = "error" /\ shown'[1].n = f + 1
           /\ sessionOpen'
    ]_vars

\* Three hunks, the edit of the second one rejected during applyAllRemaining:
\* hunk 0 is applied, hunks 1 and 2 are pending, the session is open.
C18_Witness ==
  /\ sessionOpen
  /\ NumHunks = 3
  /\ appliedHunkIndices = {0}
  /\ skippedHunkIndices = {}
  /\ DOMAIN netLineChangesByHunkIndex = {0}
  /\ Len(edits) = 2
  /\ edits[1].success
  /\ ~edits[2].success
  /\ shown = <<Msg("error", "Failed to apply hunk during 'Apply All'", 2)>>

\* The pending hunks of the session, in ascending order of their index.
PendingAscending == SortedSeq({j \in ValidIndices : Pending(j)})

\* The k-th edit of a run of applyAllRemaining is the edit of hunk p: its range
\* starts at oldStart - 1 moved by the deltas of the applied hunks before p and
\* spans oldLines lines, its text is the hunk's insert and context lines.
IsEditOfHunk(e, p, applied, net) ==
  LET start == chunks[p + 1].oldStart - 1 + SumOver(net, {j \in applied : j < p}) IN
    /\ e.startLine = start
    /\ e.endLine = start + chunks[p + 1].oldLines
    /\ e.text = LinesText(insertLines(chunks[p + 1]))

\* What applyAllRemaining does step by step: an edit for each pending hunk in
\* ascending order up to the last edit, none for another hunk; with every edit
\* accepted all pending hunks are applied, the skipped ones stay skipped and the
\* session is terminated.
ApplyAllAscending(failAt, failKind) ==
  (sessionOpen /\ ApplyAllRemaining(SessionUri, failAt, failKind)) =>
    LET pend == PendingAscending IN
      /\ Len(edits') <= Len(pend)
      /\ \A k \in 1..Len(edits') :
           IsEditOfHunk(edits'[k], pend[k], appliedHunkIndices',
                        netLineChangesByHunkIndex')
      /\ (\A k \in 1..Len(edits') : edits'[k].success) =>
           /\ appliedHunkIndices' = appliedHunkIndices \cup Range(pend)
           /\ skippedHunkIndices' = skippedHunkIndices
           /\ ~sessionOpen'

\* As in a unified diff, only a hunk without old lines has oldStart 0.
StartZeroOnlyWithoutOldLines ==
  \A k \in 1..Len(chunks) : chunks[k].oldStart >= 1 \/ chunks[k].oldLines = 0

\* C19 (as stated): applyAllRemaining submits edits for pending hunks only, in
\* strictly ascending order of the index; when every edit is accepted, every
\* hunk that was pending is applied, the skipped hunks stay skipped and the
\* session is terminated.
C19_ApplyAllAscendingAndComplete ==
  [][\A failAt \in 0..NumHunks, failKind \in {"fail", "throw"} :
       StartZeroOnlyWithoutOldLines => ApplyAllAscending(failAt, failKind)]_vars

\* The same holds when no hunk of the session starts before line 1
\* (oldStart >= 1).
ApplyAllAscendingFromLineOne ==
  [][\A failAt \in 0..NumHunks, failKind \in {"fail", "throw"} :
       (\A k \in 1..Len(chunks) : chunks[k].oldStart >= 1) =>
         ApplyAllAscending(failAt, failKind)]_vars

\* applyHunk on the hunks of a list one after the other, the editor accepting
\* every edit; after the first hunk the handler refuses nothing more is done.
RECURSIVE applyHunksInOrder(_, _)
applyHunksInOrder(s, order) ==
  IF order = <<>> THEN s
  ELSE applyHunksInOrder(applyHunkTo(s, Head(order)), Tail(order))

\* C20 (as stated): applyAllRemaining, the editor accepting every edit, leaves
\* the document, the applied and skipped sets and netLineDelta that applyHunk
\* leaves when invoked on each pending hunk in ascending order up to the first
\* failure, also when a computed range lies outside the document.
C20_ApplyAllEqualsApplyHunkEach ==
  [][(/\ sessionOpen
      /\ StartZeroOnlyWithoutOldLines
      /\ ApplyAllRemaining(SessionUri, NumHunks, "fail")) =>
       LET each == applyHunksInOrder(
                     [doc |-> doc, applied |-> appliedHunkIndices,
                      net |-> netLineChangesByHunkIndex, ok |-> TRUE],
                     PendingAscending)
       IN  /\ doc' = each.doc
           /\ appliedHunkIndices' = each.applied
           /\ netLineChangesByHunkIndex' = each.net
           /\ skippedHunkIndices' = skippedHunkIndices
    ]_vars

\* C21: discardAll on the open session terminates it whatever the status of its
\* hunks and leaves the document exactly as it was: no edit is submitted (none
\* for a pending hunk) and the text of the hunks already applied stays in the
\* document, their status and netLineDelta untouched.
C21_DiscardLeavesDocument ==
  [][(sessionOpen /\ DiscardAll(SessionUri)) =>
       /\ ~sessionOpen'
       /\ doc' = doc
       /\ edits' = <<>>
       /\ appliedHunkIndices' = appliedHunkIndices
       /\ skippedHunkIndices' = skippedHunkIndices
       /\ netLineChangesByHunkIndex' = netLineChangesByHunkIndex
    ]_vars

\* The session was discarded with one hunk applied, whose text is still in the
\* document, and another hunk pending.
C21_Witness ==
  /\ ~sessionOpen
  /\ shown = <<Msg("info", "Changes discarded for this file.", 0)>>
  /\ appliedHunkIndices # {}
  /\ \E i \in ValidIndices : Pending(i)
  /\ doc # originalText
  /\ edits = <<>>

\* The active hunk of the active session: none once the session is cleared.
activeHunk == IF sessionOpen THEN activeHunkIndex ELSE {}

\* The pending hunk of the lowest index, as {} or {index}.
FirstPending ==
  LET pend == {k \in ValidIndices : Pending(k)}
  IN  IF pend = {} THEN {} ELSE {CHOOSE k \in pend : \A j \in pend : k <= j}

\* C22: after an applyHunk(i) whose edit was accepted, or a skipHunk(i) of a
\* hunk that is not applied, activeHunk is the next pending hunk by index, that
\* is the pending hunk of the lowest index, while a hunk is pending and the
\* session is open then; when no hunk is pending, there is no active hunk and
\* the session has ended.
C22_ActiveIsNextPending ==
  [][\A i \in ValidIndices :
       (/\ sessionOpen
        /\ \/ Pending(i) /\ ApplyHunkOnly(SessionUri, i, "ok")
                         /\ i \in appliedHunkIndices'
           \/ i \notin appliedHunkIndices /\ SkipHunk(SessionUri, i)) =>
         /\ activeHunk' = FirstPending'
         /\ sessionOpen' <=> (FirstPending' # {})
    ]_vars

\* Hunk 1 was applied while hunk 0 was pending: hunk 0 is the active hunk.
C22_Witness ==
  /\ sessionOpen
  /\ NumHunks = 2
  /\ shown = <<Msg("info", "Hunk applied.", 2)>>
  /\ appliedHunkIndices = {1}
  /\ Pending(0)
  /\ activeHunk = {0}

\* The start line of hunk i computed from the session's sets and map.
StartLine(i) ==
  adjustedStartLine(chunks, appliedHunkIndices, netLineChangesByHunkIndex, i)

\* Hunk 0 is a pure insertion of two lines before line 1 (its range starts at
\* line 0) and hunk 1 replaces the line that was line 5.
TwoLineInsertionThenLineFive ==
  /\ NumHunks = 2
  /\ chunks[1].oldStart = 1 /\ chunks[1].oldLines = 0 /\ chunks[1].newLines = 2
  /\ chunks[2].oldStart = 5 /\ chunks[2].oldLines = 1 /\ chunks[2].newLines >= 1

\* C23: when hunks become applied in a step (one by applyHunk, one or more by
\* applyAllRemaining), the adjusted start line of every hunk i grows by exactly
\* the measured deltas of the newly applied hunks j < i: by d for i > j and by
\* nothing for i <= j when hunk j alone became applied with delta d, as
\* getAdjustedStartLine(i) returns it while the session is open.  With hunk 0 a
\* pure 2-line insertion before line 1 and hunk 1 a replacement at line 5,
\* applyHunk(1) after hunk 0 was applied submits its edit at 0-based line 6.
C23_LaterHunksShiftByDelta ==
  [][reviews' = reviews =>
       /\ \A i \in ValidIndices :
            LET new == {j \in appliedHunkIndices' \ appliedHunkIndices : j < i} IN
              /\ new \subseteq DOMAIN netLineChangesByHunkIndex'
              /\ StartLine(i)' = StartLine(i) + SumOver(netLineChangesByHunkIndex', new)
              /\ (sessionOpen /\ sessionOpen') =>
                   getAdjustedStartLineForHunk(i)'
                     = getAdjustedStartLineForHunk(i)
                         + SumOver(netLineChangesByHunkIndex', new)
       /\ \A outcome \in Outcomes :
            (/\ TwoLineInsertionThenLineFive
             /\ sessionOpen
             /\ appliedHunkIndices = {0}
             /\ Pending(1)
             /\ ApplyHunkOnly(SessionUri, 1, outcome)) =>
              /\ netLineChangesByHunkIndex[0] = 2
              /\ getAdjustedStartLineForHunk(1) = 6
              /\ Len(edits') = 1
              /\ edits'[1].startLine = 6
              /\ edits'[1].endLine = 7
    ]_vars

\* Hunk 0, a pure 2-line insertion before line 1, was applied and then hunk 1,
\* a replacement at line 5, by an edit accepted at line 6.
C23_Witness ==
  /\ TwoLineInsertionThenLineFive
  /\ appliedHunkIndices = {0, 1}
  /\ netLineChangesByHunkIndex[0] = 2
  /\ shown[1] = Msg("info", "Hunk applied.", 2)
  /\ Len(edits) = 1
  /\ edits[1].success
  /\ edits[1].startLine = 6

\* A step that starts a review.
ReviewStarts == reviews' = reviews + 1

\* C24: when a review session starts, first or later, every hunk is pending,
\* netLineDelta is empty and activeHunk is the first hunk (none when the diff
\* has no hunks); in an open session in which no hunk is applied,
\* getAdjustedStartLine(i) is hunk[i].oldStart - 1 for every hunk i, whatever
\* was skipped or previewed.
C24_FreshSessionAtOldStart ==
  /\ [][ReviewStarts =>
          /\ sessionOpen'
          /\ appliedHunkIndices' = {}
          /\ skippedHunkIndices' = {}
          /\ DOMAIN netLineChangesByHunkIndex' = {}
          /\ activeHunk' = IF NumHunks = 0 THEN {} ELSE {0}
       ]_vars
  /\ [](sessionOpen /\ appliedHunkIndices = {} =>
          \A i \in ValidIndices :
            getAdjustedStartLineForHunk(i) = chunks[i + 1].oldStart - 1)

\* In the second review of a run hunk 0, which changes the number of lines, is
\* skipped; no hunk is applied and hunk 1 is active.
C24_Witness ==
  /\ sessionOpen
  /\ reviews = 2
  /\ NumHunks = 2
  /\ appliedHunkIndices = {}
  /\ skippedHunkIndices = {0}
  /\ chunks[1].newLines # chunks[1].oldLines
  /\ activeHunk = {1}
  /\ getAdjustedStartLineForHunk(1) = chunks[2].oldStart - 1

\* C25: there is one slot for the active session; a review started while a
\* session is active takes its place, and the new session has none of the old
\* session's applied set, skipped set, netLineDelta or activeHunk: its sets and
\* map are empty and its active hunk is the first hunk of the diff (none
\* without hunks), whatever the old session held; the document is not touched.
C25_NewSessionCarriesNothingOver ==
  [][(sessionOpen /\ ReviewStarts) =>
       /\ reviews >= 1
       /\ sessionOpen'
       /\ appliedHunkIndices' = {}
       /\ skippedHunkIndices' = {}
       /\ netLineChangesByHunkIndex' = EmptyMap
       /\ activeHunk' = FirstPending'
       /\ FirstPending' = (IF NumHunks = 0 THEN {} ELSE {0})
       /\ \A i \in ValidIndices :
            getAdjustedStartLineForHunk(i)' = chunks[i + 1].oldStart - 1
       /\ doc' = doc
       /\ edits' = <<>>
    ]_vars

\* A second review has just started on a document that holds a line the first
\* review inserted: no hunk of the new session is applied or skipped.
C25_Witness ==
  /\ sessionOpen
  /\ reviews = 2
  /\ shown = <<>>
  /\ \E k \in 1..Len(doc) : doc[k] \in Range(AddChr)
  /\ NumHunks = 2
  /\ appliedHunkIndices = {}
  /\ skippedHunkIndices = {}
  /\ netLineChangesByHunkIndex = EmptyMap
  /\ activeHunk = {0}

\* What applyAllRemaining shows when it ends, one message each time.
ApplyAllMessages ==
  {"All remaining hunks applied.", "Position: line must be non-negative",
   "Failed to apply hunk during 'Apply All'", "Error applying hunk during 'Apply All'"}

\* C26: in a run of applyAllRemaining the edits are requested one per hunk, for
\* the pending hunks in ascending order: the k-th request follows k - 1
\* accepted edits, and its range starts at the hunk's start line as the session
\* had it before the run plus the line-count changes measured for those k - 1
\* edits, that is, it is computed from the document and the deltas recorded
\* after the edit before it completed; an accepted edit records its measured
\* delta, a rejected one ends the run, and the hunks that become applied are
\* exactly those of the accepted edits.
C26_OneEditPerHunkInTurn ==
  [][\A failAt \in 0..NumHunks, failKind \in {"fail", "throw"} :
       (/\ sessionOpen
        /\ Len(shown') = 1
        /\ shown'[1].text \in ApplyAllMessages
        /\ ApplyAllRemaining(SessionUri, failAt, failKind)) =>
         LET pend == PendingAscending
             n    == Len(edits')
         IN  /\ n <= Len(pend)
             /\ \A k \in 1..n :
                  LET p      == pend[k]
                      before == DocAfter(doc, edits', k - 1)
                      after  == DocAfter(doc, edits', k)
                      start  == StartLine(p) + lineCount(before) - lineCount(doc)
                  IN  /\ edits'[k].startLine = start
                      /\ edits'[k].endLine = start + chunks[p + 1].oldLines
                      /\ k < n => edits'[k].success
                      /\ edits'[k].success =>
                           /\ p \in appliedHunkIndices'
                           /\ p \in DOMAIN netLineChangesByHunkIndex'
                           /\ netLineChangesByHunkIndex'[p]
                                = lineCount(after) - lineCount(before)
                      /\ ~edits'[k].success =>
                           /\ p \notin appliedHunkIndices'
                           /\ p \notin skippedHunkIndices'
             /\ appliedHunkIndices' \ appliedHunkIndices
                  = {pend[k] : k \in {m \in 1..n : edits'[m].success}}
             /\ doc' = DocAfter(doc, edits', n)
    ]_vars

\* A run of two accepted edits, the first changing the number of lines: the
\* second edit starts where the first one moved its hunk.
C26_Witness ==
  /\ shown = <<Msg("info", "All remaining hunks applied.", 0)>>
  /\ NumHunks = 2
  /\ Len(edits) = 2
  /\ edits[1].success /\ edits[2].success
  /\ netLineChangesByHunkIndex[0] # 0
  /\ edits[2].startLine = chunks[2].oldStart - 1 + netLineChangesByHunkIndex[0]
  /\ edits[2].startLine # chunks[2].oldStart - 1

\* The original text with the old regions of exactly the hunks in S replaced by
\* their context and insert lines.
OriginalWithReplaced(S) == join(WalkSelected(split(originalText), chunks, 1, 0, S))

\* C27 (as stated): a failed applyHunk leaves the document the text it was
\* before the call; after a failed applyAllRemaining, for non-overlapping hunks
\* within the original's lines, the document is the original text with exactly
\* the hunks now applied replaced.
C27_FailureLeavesWholeHunks ==
  [][/\ \A i \in ValidIndices, outcome \in Outcomes :
          (/\ sessionOpen
           /\ Pending(i)
           /\ ApplyHunkOnly(SessionUri, i, outcome)
           /\ i \notin appliedHunkIndices') => doc' = doc
     /\ \A failAt \in ValidIndices, failKind \in {"fail", "throw"} :
          (/\ sessionOpen
           /\ doc = OriginalWithReplaced(appliedHunkIndices)
           /\ HunksWithin(originalText, chunks)
           /\ NonOverlapping(chunks)
           /\ AscendingStarts(chunks)
           /\ ApplyAllRemaining(SessionUri, failAt, failKind)
           /\ LastEditRejected(edits')) =>
            doc' = OriginalWithReplaced(appliedHunkIndices')
    ]_vars

\* The same holds when the original text ends with a newline.
FailureLeavesWholeHunksWithFinalNewline ==
  [][/\ \A i \in ValidIndices, outcome \in Outcomes :
          (/\ sessionOpen
           /\ Pending(i)
           /\ ApplyHunkOnly(SessionUri, i, outcome)
           /\ i \notin appliedHunkIndices') => doc' = doc
     /\ \A failAt \in ValidIndices, failKind \in {"fail", "throw"} :
          (/\ sessionOpen
           /\ endsWithNL(originalText)
           /\ doc = OriginalWithReplaced(appliedHunkIndices)
           /\ HunksWithin(originalText, chunks)
           /\ NonOverlapping(chunks)
           /\ AscendingStarts(chunks)
           /\ ApplyAllRemaining(SessionUri, failAt, failKind)
           /\ LastEditRejected(edits')) =>
            doc' = OriginalWithReplaced(appliedHunkIndices')
    ]_vars

\* The insert lines of a diff, hunk after hunk, in their order.
RECURSIVE InsertLinesOfDiff(_)
InsertLinesOfDiff(cs) ==
  IF cs = <<>> THEN <<>>
  ELSE contents(filterTypes(Head(cs).changes, {"add"})) \o InsertLinesOfDiff(Tail(cs))

C29_EntriesAreAppliedHunks ==
  /\ DOMAIN netLineChangesByHunkIndex = appliedHunkIndices
  /\ \A i \in appliedHunkIndices : i \in DOMAIN netLineChangesByHunkIndex
  /\ \A i \in skippedHunkIndices : i \notin DOMAIN netLineChangesByHunkIndex
  /\ \A i \in ValidIndices : Pending(i) => i \notin DOMAIN netLineChangesByHunkIndex

\* An open session with one hunk applied that left the line count as it was,
\* one hunk skipped and one hunk pending.
C29_Witness ==
  /\ sessionOpen
  /\ \E i, j, k \in ValidIndices :
       /\ i \in appliedHunkIndices /\ netGet(netLineChangesByHunkIndex, i) = 0
       /\ j \in skippedHunkIndices
       /\ Pending(k)
  /\ DOMAIN netLineChangesByHunkIndex = appliedHunkIndices

\* C30: in every reachable state in which a session is open (no handler is
\* running between two states), activeHunk is none or the index of a pending
\* hunk; it never names an applied or a skipped hunk, also after an
\* applyAllRemaining that stopped at a failure.
C30_ActiveIsNoneOrPending ==
  sessionOpen =>
    \A i \in activeHunk : i \in ValidIndices /\ Pending(i)

\* Every step other than a run of applyAllRemaining keeps activeHunk none or
\* pending: starting a review, applyHunkOnly whatever its outcome, skipHunk
\* (also of an index outside the diff) and discardAll.
ActiveStaysPendingWithoutApplyAll ==
  [][(/\ C30_ActiveIsNoneOrPending
      /\ ~(/\ sessionOpen
           /\ \E failAt \in 0..NumHunks, failKind \in {"fail", "throw"} :
                ApplyAllRemaining(SessionUri, failAt, failKind)))
       => C30_ActiveIsNoneOrPending']_vars

\* C31: no edit request is computed or submitted while an earlier edit request
\* of the same session is outstanding, also when a second command is invoked
\* before the first has completed: of the requests awaited at any moment no two
\* belong to handlers of the same session.
C31_OneOutstandingEditPerSession ==
  \A a, b \in DOMAIN inFlight :
    a # b => inFlight[a].session # inFlight[b].session

\* C32: a command invoked on hunk i while the edit of an earlier applyHunkOnly(i)
\* is in flight has no effect on that hunk: no hunk has two requests of the same
\* session in flight, a hunk with a request in flight is not marked skipped, and
\* no hunk ends both applied and skipped.
C32_InFlightHunkUntouched ==
  /\ \A a, b \in DOMAIN inFlight :
       a # b => ~(/\ inFlight[a].session = inFlight[b].session
                  /\ inFlight[a].hunk = inFlight[b].hunk)
  /\ \A a \in DOMAIN inFlight :
       inFlight[a].session = reviews => inFlight[a].hunk \notin skippedHunkIndices
  /\ appliedHunkIndices \cap skippedHunkIndices = {}

\* The editor completes an edit that a handler of the session object before
\* the newest one has submitted.
CompletionOfOlderSession ==
  /\ inFlight # <<>>
  /\ Head(inFlight).session # reviews
  /\ \E outcome \in Outcomes : CompleteEdit(outcome)

\* C33: when a new review has started while an edit of applyHunkOnly or
\* applyAllRemaining was in flight, the completion of that edit marks no hunk of
\* the newer session applied, records no netLineDelta in it and does not
\* terminate it.
C33_CompletionLeavesNewerSession ==
  [][CompletionOfOlderSession =>
       /\ appliedHunkIndices' = appliedHunkIndices
       /\ netLineChangesByHunkIndex' = netLineChangesByHunkIndex
       /\ sessionOpen' = sessionOpen]_vars

\* The part of it that holds: the handler writes to the sets it took from its
\* own session object, so the sets of the newer session stay as they are.
CompletionLeavesNewerSessionSets ==
  [][CompletionOfOlderSession =>
       /\ appliedHunkIndices' = appliedHunkIndices
       /\ skippedHunkIndices' = skippedHunkIndices
       /\ netLineChangesByHunkIndex' = netLineChangesByHunkIndex]_vars

\* C34: applyHunkOnly, skipHunk, applyAllRemaining and discardAll invoked while
\* no session is active, or with the uri of a file other than the session's,
\* do nothing: no edit is submitted, no message is shown, and the document, the
\* applied and skipped sets, the deltas, the active hunk and the open or closed
\* state of the session are as before.
C34_NoSessionOrOtherFileIsNoOp ==
  [][(\E fileUri \in Uris :
        /\ ~sessionOpen \/ fileUri # SessionUri
        /\ \/ \E hunkIndex \in 0..NumHunks, outcome \in Outcomes :
                ApplyHunkOnly(fileUri, hunkIndex, outcome)
           \/ \E hunkIndex \in 0..NumHunks : SkipHunk(fileUri, hunkIndex)
           \/ \E failAt \in 0..NumHunks, failKind \in {"fail", "throw"} :
                ApplyAllRemaining(fileUri, failAt, failKind)
           \/ DiscardAll(fileUri))
      => /\ edits' = <<>>
         /\ shown' = <<>>
         /\ doc' = doc
         /\ appliedHunkIndices' = appliedHunkIndices
         /\ skippedHunkIndices' = skippedHunkIndices
         /\ netLineChangesByHunkIndex' = netLineChangesByHunkIndex
         /\ activeHunkIndex' = activeHunkIndex
         /\ sessionOpen' = sessionOpen]_vars

\* A review has ended with a hunk applied and none skipped, by the last hunk
\* applied or by discardAll, both of which show a message; a command invoked
\* since then has shown nothing.
C34_Witness ==
  /\ ~sessionOpen
  /\ reviews = 1
  /\ appliedHunkIndices # {}
  /\ skippedHunkIndices = {}
  /\ doc # originalText
  /\ shown = <<>>
  /\ edits = <<>>

\* C35: for hunks that do not overlap, lie within the lines of the original
\* document and have oldStart >= 1, the range computed for every pending hunk
\* satisfies 0 <= start and start + oldLines <= lineCount of the document in
\* every reachable state of the session, so that the bounds check of
\* applyHunkOnly never refuses, whatever hunks were applied or skipped before
\* and in whatever order.
C35_PendingRangesWithinDocument ==
  (/\ sessionOpen
   /\ NonOverlapping(chunks)
   /\ HunksWithin(originalText, chunks)) =>
    \A i \in ValidIndices :
      Pending(i) =>
        /\ 0 <= StartLine(i)
        /\ StartLine(i) + chunks[i + 1].oldLines <= lineCount(doc)
        /\ ~invalidRange(getAdjustedStartLineForHunk(i), chunks[i + 1].oldLines,
                         lineCount(doc))

\* An earlier hunk was applied with a delta other than 0, and a pending hunk
\* that removes lines starts at a shifted line and ends at the last line of the
\* document.
C35_Witness ==
  /\ sessionOpen
  /\ NonOverlapping(chunks)
  /\ HunksWithin(originalText, chunks)
  /\ \E i, j \in ValidIndices :
       /\ j < i
       /\ Pending(i)
       /\ chunks[i + 1].oldLines > 0
       /\ j \in appliedHunkIndices
       /\ netGet(netLineChangesByHunkIndex, j) # 0
       /\ StartLine(i) # chunks[i + 1].oldStart - 1
       /\ StartLine(i) + chunks[i + 1].oldLines = lineCount(doc)

\* C36: in every reachable state in which a session is open (no handler is
\* running between two states), at least one hunk of the session is pending:
\* a session never stays open with all of its hunks applied or skipped, a
\* session started on a diff without hunks included.
C36_OpenSessionHasPendingHunk ==
  sessionOpen => \E i \in ValidIndices : Pending(i)

\* It holds of the sessions started on a diff that has hunks.
OpenSessionWithHunksHasPendingHunk ==
  (sessionOpen /\ NumHunks >= 1) => \E i \in ValidIndices : Pending(i)

\* The hunks an index list selects: its entries that name a hunk.
SelectedSet(indices) == {indices[k] : k \in DOMAIN indices} \cap ValidIndices

\* C37: the result of applySelectedHunksToContent depends only on the set of
\* the selected hunk indices: a list with the same indices in another order,
\* with an index listed more than once, or with indices that name no hunk,
\* gives the same text.
C37_SelectedDependsOnSetOnly ==
  result.fn = "applySelectedHunksToContent" =>
    \A other \in IndexLists(NumHunks) :
      SelectedSet(other) = SelectedSet(result.indices) =>
        applySelectedHunksToContent(originalText, chunks, other) = result.out

\* No index that names a hunk is listed twice.
ListedOnce(indices) ==
  \A a, b \in DOMAIN indices :
    (a # b /\ indices[a] \in ValidIndices) => indices[a] # indices[b]

\* It holds of the lists that name no hunk twice: the order of the indices and
\* the indices that name no hunk make no difference.
SelectedListedOnceDependsOnSetOnly ==
  (result.fn = "applySelectedHunksToContent" /\ ListedOnce(result.indices)) =>
    \A other \in IndexLists(NumHunks) :
      (ListedOnce(other) /\ SelectedSet(other) = SelectedSet(result.indices)) =>
        applySelectedHunksToContent(originalText, chunks, other) = result.out

\* The editor completes an edit of a run of applyAllRemaining.
RunStep(outcome) ==
  /\ inFlight # <<>>
  /\ Head(inFlight).cmd = "applyAllRemaining"
  /\ CompleteEdit(outcome)

\* A failure was reported: an error message of the handler, or the exception
\* that left the handler.
FailureReported(messages) ==
  \E m \in DOMAIN messages : messages[m].kind \in {"error", "uncaught"}

\* C38: a run of applyAllRemaining ends after at most one edit request per hunk
\* that was pending at its start.  Each completion of an edit of the run either
\* ends the run or is followed by one request of the run for a pending hunk of
\* a higher index; a rejected edit ends the run and is not submitted again; a
\* run that ends leaves the session terminated or a failure reported; and the
\* invocation submits one request at most, for the first pending hunk.
C38_ApplyAllRunIsBounded ==
  [][/\ \A outcome \in Outcomes :
          RunStep(outcome) =>
            LET r == Head(inFlight) IN
            /\ Len(inFlight') \in {Len(inFlight) - 1, Len(inFlight)}
            /\ SubSeq(inFlight', 1, Len(inFlight) - 1) = Tail(inFlight)
            /\ Len(edits') = 1
            /\ outcome # "ok" =>
                 /\ Len(inFlight') = Len(inFlight) - 1
                 /\ ~edits'[1].success
                 /\ FailureReported(shown')
                 /\ sessionOpen' = sessionOpen
            /\ Len(inFlight') = Len(inFlight) =>
                 /\ outcome = "ok"
                 /\ inFlight'[Len(inFlight')].cmd = "applyAllRemaining"
                 /\ inFlight'[Len(inFlight')].session = r.session
                 /\ inFlight'[Len(inFlight')].hunk > r.hunk
                 /\ inFlight'[Len(inFlight')].hunk < NumHunks
                 /\ r.session = reviews =>
                      /\ inFlight'[Len(inFlight')].hunk \notin appliedHunkIndices'
                      /\ inFlight'[Len(inFlight')].hunk \notin skippedHunkIndices'
            /\ Len(inFlight') = Len(inFlight) - 1 =>
                 ~sessionOpen' \/ FailureReported(shown')
     /\ (sessionOpen /\ InvokeApplyAllRemaining(SessionUri)) =>
          /\ Len(inFlight') \in {Len(inFlight), Len(inFlight) + 1}
          /\ Len(inFlight') = Len(inFlight) + 1 =>
               /\ {inFlight'[Len(inFlight')].hunk} = FirstPending
               /\ SubSeq(inFlight', 1, Len(inFlight)) = inFlight
          /\ Len(inFlight') = Len(inFlight) =>
               ~sessionOpen' \/ FailureReported(shown')
    ]_vars

\* A run has ended at a rejected edit behind an accepted one: hunk 0 applied,
\* hunk 1 pending, the failure of hunk 2 reported, nothing in flight, the
\* session open.
C38_Witness ==
  /\ sessionOpen
  /\ inFlight = <<>>
  /\ NumHunks = 2
  /\ appliedHunkIndices = {0}
  /\ Pending(1)
  /\ Len(edits) = 1 /\ ~edits[1].success
  /\ Len(shown) = 1
  /\ shown[1].text = "Failed to apply hunk during 'Apply All'"
  /\ shown[1].n = 2

\* The same of a run taken as one step, the commands invoked one at a time: no
\* more edits than pending hunks, a rejected edit only as the last one, and at
\* the end the session terminated, exactly when no hunk is pending any more,
\* or a failure reported.
ApplyAllRunIsBoundedInOneStep ==
  [][\A failAt \in 0..NumHunks, failKind \in {"fail", "throw"} :
       (/\ sessionOpen
        /\ Len(shown') = 1
        /\ shown'[1].text \in ApplyAllMessages
        /\ ApplyAllRemaining(SessionUri, failAt, failKind)) =>
          /\ Len(edits') <= Len(PendingAscending)
          /\ \A k \in 1..(Len(edits') - 1) : edits'[k].success
          /\ ~sessionOpen' \/ FailureReported(shown')
          /\ ~sessionOpen' <=> (\A j \in ValidIndices : ~Pending(j)')
    ]_vars

\* C39: an applyDiff request destroys an open session only when it starts a new
\* review: a request that starts none (empty clipboard, no diff found, diff not
\* suitable for the inline review) leaves the session open, with its applied
\* and skipped sets, its deltas and its active hunk as they were.
C39_ApplyDiffWithoutReviewKeepsSession ==
  [][\A contextUri \in Uris \cup {NoUri}, clipboard \in Clipboards \ {"review"} :
       (sessionOpen /\ ApplyDiff(contextUri, clipboard)) =>
         /\ sessionOpen'
         /\ appliedHunkIndices' = appliedHunkIndices
         /\ skippedHunkIndices' = skippedHunkIndices
         /\ netLineChangesByHunkIndex' = netLineChangesByHunkIndex
         /\ activeHunkIndex' = activeHunkIndex]_vars

\* It holds of the requests made for the document of the open session.
ApplyDiffForSessionFileWithoutReviewKeepsSession ==
  [][\A clipboard \in Clipboards \ {"review"} :
       (sessionOpen /\ ApplyDiff(SessionUri, clipboard)) =>
         /\ sessionOpen'
         /\ appliedHunkIndices' = appliedHunkIndices
         /\ skippedHunkIndices' = skippedHunkIndices
         /\ netLineChangesByHunkIndex' = netLineChangesByHunkIndex
         /\ activeHunkIndex' = activeHunkIndex]_vars

====
